---- MODULE Spec2Model ----
(***************************************************************************)
(* The localisation layer of the wallet front-end (lib/i18n core, found in *)
(* src/src/app/atoms/FormSecondaryButton.tsx lines 63-226): init(),        *)
(* getMessage(), fetchLocaleMessages(), appendPlaceholderLists() and the   *)
(* locale getters, over the module-level state fetchedLocaleMessages and   *)
(* cldrLocale.                                                             *)
(*                                                                         *)
(* Strings the code computes with (templates, placeholder names, "$N"      *)
(* descriptors, substituted values, locale codes) are sequences of         *)
(* one-character strings.  Message keys are only compared, so they are     *)
(* TLA+ strings.                                                           *)
(***************************************************************************)
EXTENDS Integers, Sequences, FiniteSets, TLC

\* ------------------------------------------------------------------ bounds
\* Longest substitutions list a caller passes to getMessage.
MaxArgs == 3

\* ------------------------------------------------------------- JS values
Undefined == [t |-> "undefined", s |-> <<>>]

Str(cs) == [t |-> "string", s |-> cs]

\* An exception travelling up the call stack (not a value a caller can hold).
Thrown == [t |-> "throw", s |-> <<>>]

EmptyString == Str(<<>>)

\* A caller's `substitutions` argument: one value or an array of values.
Single(v) == [isArray |-> FALSE, value |-> v, items |-> <<>>]

Array(xs) == [isArray |-> TRUE, value |-> Undefined, items |-> xs]

\* getMessage(name) with the optional argument left out.
NoSubstitutions == Single(Undefined)

\* ----------------------------------------------------- number <-> string
DigitChars == <<"0", "1", "2", "3", "4", "5", "6", "7", "8", "9">>

DigitValue(c) == CHOOSE d \in 0..9 : DigitChars[d + 1] = c

IsDigit(c) == \E d \in 0..9 : DigitChars[d + 1] = c

\* String(n) for a natural number n, as used for a computed property key.
RECURSIVE NumberToString(_)
NumberToString(n) ==
  IF n < 10 THEN <<DigitChars[n + 1]>>
  ELSE NumberToString(n \div 10) \o <<DigitChars[(n % 10) + 1]>>

RECURSIVE DecimalValue(_, _)
DecimalValue(cs, acc) ==
  IF cs = <<>> THEN acc
  ELSE DecimalValue(Tail(cs), acc * 10 + DigitValue(Head(cs)))

\* Unary plus on a string: "" is 0, a run of digits is its value, anything
\* else over the characters used here is NaN.
ToNumber(cs) ==
  IF \A i \in 1..Len(cs) : IsDigit(cs[i])
  THEN [nan |-> FALSE, n |-> DecimalValue(cs, 0)]
  ELSE [nan |-> TRUE, n |-> 0]

\* ------------------------------------------------------- message bundles
\* A LocaleMessage as parsed from messages.json: `message` is a string or
\* missing; `placeholders`, when present, lists name -> { content } in the
\* order of the JSON object; placeholderList is the derived array (a JS
\* array may have holes and non-index properties, so it is a function on
\* the integers it was assigned at).
NoList == [i \in {} |-> <<>>]

Message(msg) ==
  [message |-> msg, hasPlaceholders |-> FALSE, placeholders |-> <<>>,
   hasList |-> FALSE, placeholderList |-> NoList]

MessageWith(msg, phs) ==
  [message |-> msg, hasPlaceholders |-> TRUE, placeholders |-> phs,
   hasList |-> FALSE, placeholderList |-> NoList]

Placeholder(name, content) == [name |-> name, content |-> content]

\* The bundle slot value null, and a loaded bundle.
Null == [loaded |-> FALSE, messages |-> [k \in {} |-> Message(Undefined)]]

Bundle(msgs) == [loaded |-> TRUE, messages |-> msgs]

\* -------------------------------------------------- appendPlaceholderLists
\* content.substring(1)
Substring1(cs) == IF cs = <<>> THEN <<>> ELSE Tail(cs)

\* The inner loop: placeholderList[+content.substring(1) - 1] = pKey for each
\* placeholder in object order.  An assignment at index NaN sets the property
\* "NaN", which no indexed read reaches, so it leaves the function unchanged.
\* Faulty variant of PlaceholderIndex: the index is N, not N - 1.
PlaceholderIndex_NotShifted(content) ==
  LET num == ToNumber(Substring1(content.s))
  IN  [nan |-> num.nan, n |-> num.n]

\* index = +content.substring(1) - 1
PlaceholderIndex(content) ==
  LET num == ToNumber(Substring1(content.s))
  IN  [nan |-> num.nan, n |-> num.n - 1]

\* Faulty variant of BuildPlaceholderList: the names are listed in the order
\* of the placeholders object, whatever their content says.
BuildPlaceholderList_InOrder(phs, list) ==
  [j \in 0..(Len(phs) - 1) |-> phs[j + 1].name]

RECURSIVE BuildPlaceholderList(_, _)
BuildPlaceholderList(phs, list) ==
  IF phs = <<>> THEN list
  ELSE LET ph    == Head(phs)
           index == PlaceholderIndex(ph.content)
           next  == IF index.nan THEN list
                    ELSE [j \in (DOMAIN list) \cup {index.n} |->
                            IF j = index.n THEN ph.name ELSE list[j]]
       IN  BuildPlaceholderList(Tail(phs), next)

\* content.substring throws a TypeError when content is not a string.
DescriptorThrows(val) ==
  val.hasPlaceholders /\
  \E i \in 1..Len(val.placeholders) : val.placeholders[i].content.t # "string"

appendPlaceholderLists(messages) ==
  IF \E name \in DOMAIN messages : DescriptorThrows(messages[name])
  THEN [threw |-> TRUE, messages |-> messages]
  ELSE [threw |-> FALSE,
        messages |->
          [name \in DOMAIN messages |->
             LET val == messages[name]
             IN  IF val.hasPlaceholders
                 THEN [val EXCEPT !.hasList = TRUE,
                                  !.placeholderList =
                                     BuildPlaceholderList(val.placeholders, NoList)]
                 ELSE val]]

\* ----------------------------------------------------- fetchLocaleMessages
\* The packaged _locales directory: the parsed body of messages.json per
\* directory name.  Directory "tlh" does not exist.  The fr bundle has a
\* descriptor whose content is not "$N", the de bundle one without content.
T_HiName == <<"H", "i", " ", "{", "n", "a", "m", "e", "}">>

T_SalutName == <<"S", "a", "l", "u", "t", " ", "{", "n", "a", "m", "e", "}">>

T_Bye == <<"B", "y", "e">>

T_Cheerio == <<"T", "a", " ", "{", "1", "}">>

T_Indexed == <<"{", "0", "}", "{", "w", "}", "{", "2", "}">>

T_Unclosed == <<"O", "o", "p", "s", " ", "{", "x">>

T_Word == <<"{", "w", "}">>

T_HalloName == <<"H", "a", "l", "l", "o", " ", "{", "n", "a", "m", "e", "}">>

N_name == <<"n", "a", "m", "e">>

Dollar(n) == <<"$">> \o NumberToString(n)

L_en == <<"e", "n">>

L_fr == <<"f", "r">>

L_enGB == <<"e", "n", "-", "G", "B">>

L_tlh == <<"t", "l", "h">>

L_de == <<"d", "e">>

D_en_GB == <<"e", "n", "_", "G", "B">>

LocaleFiles ==
  [dir \in {L_en, L_fr, L_de, D_en_GB} |->
     IF dir = L_en
     THEN [k \in {"greet", "bye", "idx", "bad", "broken"} |->
             CASE k = "greet"  -> MessageWith(Str(T_HiName),
                                     <<Placeholder(N_name, Str(Dollar(1)))>>)
               [] k = "bye"    -> Message(Str(T_Bye))
               [] k = "idx"    -> MessageWith(Str(T_Indexed),
                                     <<Placeholder(<<"w">>, Str(Dollar(2)))>>)
               [] k = "bad"    -> Message(Undefined)
               [] k = "broken" -> MessageWith(Str(T_Unclosed),
                                     <<Placeholder(<<"y">>, Str(Dollar(2))),
                                       Placeholder(<<"x">>, Str(Dollar(1)))>>)]
     ELSE IF dir = L_fr
     THEN [k \in {"greet", "idx"} |->
             IF k = "greet"
             THEN MessageWith(Str(T_SalutName),
                              <<Placeholder(N_name, Str(Dollar(1)))>>)
             ELSE MessageWith(Str(T_Word),
                              <<Placeholder(<<"w">>, Str(<<"$", "w">>))>>)]
     ELSE IF dir = L_de
     THEN [k \in {"greet"} |->
             MessageWith(Str(T_HalloName), <<Placeholder(N_name, Undefined)>>)]
     ELSE [k \in {"bye"} |-> Message(Str(T_Cheerio))]]

\* locale.replace('-', '_'): the first "-" becomes "_".
RECURSIVE DirName(_)
DirName(locale) ==
  IF locale = <<>> THEN <<>>
  ELSE IF Head(locale) = "-" THEN <<"_">> \o Tail(locale)
  ELSE <<Head(locale)>> \o DirName(Tail(locale))

\* How one fetch can end: the request fails, the body is not JSON, or the
\* body parses.
FetchOutcomes == {"networkError", "badJson", "ok"}

\* The body of the try block: fetch(url), res.json(), appendPlaceholderLists.
\* Any of the three can throw.
FetchBody(locale, outcome) ==
  LET dirName == DirName(locale)
  IN  IF outcome # "ok" \/ dirName \notin DOMAIN LocaleFiles
      THEN [threw |-> TRUE, value |-> Null]
      ELSE LET res == appendPlaceholderLists(LocaleFiles[dirName])
           IN  [threw |-> res.threw, value |-> Bundle(res.messages)]

\* Faulty variant of fetchLocaleMessages: no catch block, a failure rejects.
fetchLocaleMessages_NoCatch(locale, outcome) ==
  LET body == FetchBody(locale, outcome)
  IN  [rejected |-> body.threw, value |-> body.value]

\* What the promise of fetchLocaleMessages(locale) settles with: the catch
\* block turns everything thrown in the try block into the value null.
\* Faulty variant of fetchLocaleMessages: appendPlaceholderLists is called
\* after the try block, so what it throws rejects the returned promise.
fetchLocaleMessages_AppendOutsideTry(locale, outcome) ==
  LET dirName == DirName(locale)
      body    == FetchBody(locale, outcome)
  IN  IF outcome # "ok" \/ dirName \notin DOMAIN LocaleFiles
      THEN [rejected |-> FALSE, value |-> Null]
      ELSE [rejected |-> body.threw, value |-> body.value]

fetchLocaleMessages(locale, outcome) ==
  LET body == FetchBody(locale, outcome)
  IN  IF body.threw
      THEN [rejected |-> FALSE, value |-> Null]
      ELSE [rejected |-> FALSE, value |-> body.value]

\* ------------------------------------------------------------- helpers
\* toList(term): an array stays as it is, anything else becomes a
\* one-element array.
toList(term) == IF term.isArray THEN term.items ELSE <<term.value>>

\* Index of the first "}" of str at or after position i, 0 when there is none.
RECURSIVE FindClose(_, _)
FindClose(str, i) ==
  IF i > Len(str) THEN 0
  ELSE IF str[i] = "}" THEN i
  ELSE FindClose(str, i + 1)

\* The scan of processTemplate from position i: text is copied, a reference
\* {name} is replaced by the string bound to name in params; a reference
\* whose name is unbound, or bound to undefined, stays as written.  An
\* unclosed "{" is a malformed template and throws.
RECURSIVE TemplateScan(_, _, _)
TemplateScan(str, i, params) ==
  IF i > Len(str) THEN [threw |-> FALSE, s |-> <<>>]
  ELSE IF str[i] # "{"
  THEN LET rest == TemplateScan(str, i + 1, params)
       IN  [threw |-> rest.threw, s |-> <<str[i]>> \o rest.s]
  ELSE LET close == FindClose(str, i + 1)
       IN  IF close = 0 THEN [threw |-> TRUE, s |-> <<>>]
           ELSE LET name == SubSeq(str, i + 1, close - 1)
                    out  == IF name \in DOMAIN params /\ params[name].t = "string"
                            THEN params[name].s
                            ELSE SubSeq(str, i, close)
                    rest == TemplateScan(str, close + 1, params)
                IN  [threw |-> rest.threw, s |-> out \o rest.s]

\* processTemplate(str, mapping): Thrown when str is not a string or the
\* template is malformed, else the substituted string.
processTemplate(str, mapping) ==
  IF str.t # "string" THEN Thrown
  ELSE LET r == TemplateScan(str.s, 1, mapping)
       IN  IF r.threw THEN Thrown ELSE Str(r.s)

\* ------------------------------------------------------------------ state
VARIABLES
  fetchedLocaleMessages,  \* { target, fallback }: the bundle pair in use
  cldrLocale,             \* key of the cldrjsLocales entry in use
  savedLocale,            \* the saved locale preference, <<>> when none
  loads,                  \* per init() call: where it is and its `refetched`
  ret,                    \* the last getMessage call and what it returned
  hist,                   \* history: which init() call assigned last, and
                          \* which calls were in flight when each one started
  twin,                   \* a second run of the module on the same schedule
                          \* whose fetches end independently
  form,                   \* the ConfirmDAppForm component
  wizard,                 \* the buy-crypto wizard around FirstStep
  dapps,                  \* the DAppsList component
  swap                    \* the SwapInput component

vars == <<fetchedLocaleMessages, cldrLocale, savedLocale, loads, ret, hist, twin,
          form, wizard, dapps, swap>>

\* The variables of the i18n module, and those of the components.
i18n == <<fetchedLocaleMessages, cldrLocale, savedLocale, loads, ret, hist, twin>>

others == <<form, wizard, dapps, swap>>

\* A component that is not on the page.
Unmounted == [mounted |-> FALSE]

\* init() calls that can be in flight at the same time.
Loads == {1, 2}

\* ---------------------------------------------------------------- locales
\* getSavedLocale(): the stored preference, or null (falsy, like "").
getSavedLocale == savedLocale

\* browser.i18n.getUILanguage()
getNativeLocale == L_enGB

\* manifest.default_locale of the extension.
ManifestDefaultLocale == L_en

getDefaultLocale ==
  IF ManifestDefaultLocale # <<>> THEN ManifestDefaultLocale ELSE L_en

\* a || b on strings: "" and null are falsy.
OrElse(a, b) == IF a # <<>> THEN a ELSE b

getCurrentLocale == OrElse(getSavedLocale, getNativeLocale)

\* Keys of cldrjs-locales.json.
CldrjsLocales == {L_en, L_fr}

\* cldrjsLocales[locale] || cldrjsLocales.en, named by the entry's key.
CldrEntryFor(locale) == IF locale \in CldrjsLocales THEN locale ELSE L_en

getCldrLocale == cldrLocale

\* The "symbols-numberSystem-latn" table of each cldrjs-locales.json entry
\* (decimal and group separators).
CldrSymbols ==
  [locale \in CldrjsLocales |->
     IF locale = L_fr THEN [decimal |-> ",", group |-> " "]
     ELSE [decimal |-> ".", group |-> ","]]

\* Faulty variant of getNumberSymbols: the entry is looked up for the current
\* locale at every call instead of being read from the cache.
getNumberSymbols_Live == CldrSymbols[CldrEntryFor(getCurrentLocale)]

\* cldrLocale.numbers['symbols-numberSystem-latn']
getNumberSymbols == CldrSymbols[cldrLocale]

\* -------------------------------------------------------------- getMessage
\* Properties every object parsed from JSON inherits from Object.prototype.
ObjectPrototypeKeys == {"constructor"}

NotDefined == [defined |-> FALSE, val |-> Message(Undefined)]

\* messages[name]: the own property, else the inherited one (a function,
\* which has neither .placeholders nor .message), else undefined.
PropertyOf(messages, name) ==
  IF name \in DOMAIN messages THEN [defined |-> TRUE, val |-> messages[name]]
  ELSE IF name \in ObjectPrototypeKeys
  THEN [defined |-> TRUE, val |-> Message(Undefined)]
  ELSE NotDefined

\* slot?.[name]
OptionalProperty(slot, name) ==
  IF slot.loaded THEN PropertyOf(slot.messages, name) ELSE NotDefined

\* a ?? b
Coalesce(a, b) == IF a.defined THEN a ELSE b

\* val.placeholderList?.[i] ?? i, for the 0-based position i.
PlaceholderKey(val, i) ==
  IF val.hasList /\ i \in DOMAIN val.placeholderList
  THEN [isNumber |-> FALSE, n |-> 0, s |-> val.placeholderList[i]]
  ELSE [isNumber |-> TRUE, n |-> i, s |-> <<>>]

\* The truthiness test `pKey ?`: 0 and "" are falsy.
Truthy(pKey) == IF pKey.isNumber THEN pKey.n # 0 ELSE pKey.s # <<>>

PropertyName(pKey) == IF pKey.isNumber THEN NumberToString(pKey.n) ELSE pKey.s

NoParams == [k \in {} |-> Undefined]

\* The reduce over toList(substitutions), from 0-based position i on.
RECURSIVE ReduceParams(_, _, _, _)
ReduceParams(val, list, i, prms) ==
  IF i >= Len(list) THEN prms
  ELSE LET pKey == PlaceholderKey(val, i)
           key  == PropertyName(pKey)
           next == IF Truthy(pKey)
                   THEN [k \in (DOMAIN prms) \cup {key} |->
                           IF k = key THEN list[i + 1] ELSE prms[k]]
                   ELSE prms
       IN  ReduceParams(val, list, i + 1, next)

\* Faulty variant of MessageBody: reduce is called on substitutions itself,
\* which throws for a value that is not an array.
MessageBody_ArrayOnly(val, substitutions) ==
  IF val.hasPlaceholders
  THEN IF substitutions.isArray
       THEN processTemplate(val.message,
                            ReduceParams(val, substitutions.items, 0, NoParams))
       ELSE Thrown
  ELSE val.message

\* Faulty variant of MessageBody: the template is processed even when the
\* message declares no placeholders.
MessageBody_AlwaysProcess(val, substitutions) ==
  processTemplate(val.message,
                  ReduceParams(val, toList(substitutions), 0, NoParams))

\* The try block of getMessage for the message val.
MessageBody(val, substitutions) ==
  IF val.hasPlaceholders
  THEN processTemplate(val.message,
                       ReduceParams(val, toList(substitutions), 0, NoParams))
  ELSE val.message

\* Faulty variant of ReturnFor: no try/catch, the exception reaches the caller.
ReturnFor_NoCatch(val, substitutions) == MessageBody(val, substitutions)

\* The try/catch of getMessage around the body: whatever is thrown is logged
\* and "" is returned.
ReturnFor(val, substitutions) ==
  LET r == MessageBody(val, substitutions)
  IN  IF r = Thrown THEN EmptyString ELSE r

\* Faulty variant of LookupMessage: the fallback bundle is never consulted.
LookupMessage_TargetOnly(messageName) ==
  OptionalProperty(fetchedLocaleMessages.target, messageName)

\* Faulty variant of LookupMessage: the fallback bundle is consulted first.
LookupMessage_FallbackFirst(messageName) ==
  Coalesce(OptionalProperty(fetchedLocaleMessages.fallback, messageName),
           OptionalProperty(fetchedLocaleMessages.target, messageName))

\* val: target?.[messageName] ?? fallback?.[messageName]
LookupMessage(messageName) ==
  Coalesce(OptionalProperty(fetchedLocaleMessages.target, messageName),
           OptionalProperty(fetchedLocaleMessages.fallback, messageName))

getMessage(messageName, substitutions) ==
  LET found == LookupMessage(messageName)
  IN  IF ~found.defined THEN EmptyString
      ELSE ReturnFor(found.val, substitutions)

\* ------------------------------------------------------------------ inputs
\* Message keys callers ask for: the keys of the packaged bundles, a key no
\* bundle has, and a key every object inherits.
MessageNames ==
  {"greet", "bye", "idx", "bad", "broken", "nope", "constructor"}

V_Ann == <<"A", "n", "n">>

V_Bob == <<"B", "o", "b">>

\* The argument list Ann, Bob, Ann, ... of length n.
ArgList(n) == [i \in 1..n |-> IF i % 2 = 1 THEN Str(V_Ann) ELSE Str(V_Bob)]

\* What callers pass as substitutions: nothing, one value, that value in an
\* array, and the longest argument list.
SubstitutionChoices ==
  {NoSubstitutions, Single(Str(V_Ann)), Array(<<Str(V_Ann)>>),
   Array(ArgList(MaxArgs))}

\* Preferences the user can save: none, two packaged locales, an unknown one.
SavedLocaleChoices == {<<>>, L_fr, L_de, L_tlh}

\* ------------------------------------------------------------------- init
NoRefetched == [target |-> Null, fallback |-> Null]

\* An init() call that is not running: not called yet, or settled.
Settled(status) ==
  [pc |-> status, targetLocale |-> <<>>, fallbackLocale |-> <<>>,
   refetched |-> NoRefetched, targetDone |-> FALSE, fallbackDone |-> FALSE]

\* No init() call has assigned the module variables yet.
NoHistory == [writer |-> 0, older |-> [l \in Loads |-> {}]]

\* The second run right after the module is loaded (lines 85-90).
TwinAtStart ==
  [fetchedLocaleMessages |-> NoRefetched, cldrLocale |-> L_en,
   refetched |-> NoRefetched]

Init ==
  /\ fetchedLocaleMessages = [target |-> Null, fallback |-> Null]
  /\ cldrLocale = L_en
  /\ savedLocale \in SavedLocaleChoices
  /\ loads = [l \in Loads |-> Settled("idle")]
  /\ ret = [called |-> FALSE, messageName |-> "", substitutions |-> NoSubstitutions,
            value |-> Undefined]
  /\ hist = NoHistory
  /\ twin = TwinAtStart
  /\ form = Unmounted /\ wizard = Unmounted
  /\ dapps = Unmounted /\ swap = Unmounted

\* The user saves another locale preference (the store is written elsewhere).
SetSavedLocale(locale) ==
  /\ locale # savedLocale
  /\ savedLocale' = locale
  /\ UNCHANGED <<fetchedLocaleMessages, cldrLocale, loads, ret>>

\* init() up to `await Promise.all`: refetched is created, the three locales
\* are read and both fetches are issued.
InitStart(l) ==
  /\ loads[l].pc # "awaiting"
  /\ loads' = [loads EXCEPT ![l] =
       [pc |-> "awaiting",
        targetLocale |-> OrElse(getSavedLocale, getNativeLocale),
        fallbackLocale |-> getDefaultLocale,
        refetched |-> NoRefetched, targetDone |-> FALSE, fallbackDone |-> FALSE]]
  /\ UNCHANGED <<fetchedLocaleMessages, cldrLocale, savedLocale, ret>>

\* Faulty variant of TargetFetched: the fetched bundle is also written to the
\* target slot of the pair in use as soon as it arrives.
TargetFetched_WritesThrough(l, outcome) ==
  /\ loads[l].pc = "awaiting" /\ ~loads[l].targetDone
  /\ LET r == fetchLocaleMessages(loads[l].targetLocale, outcome)
     IN  /\ loads' = [loads EXCEPT ![l] =
               IF r.rejected THEN Settled("rejected")
               ELSE [@ EXCEPT !.refetched.target = r.value, !.targetDone = TRUE]]
         /\ fetchedLocaleMessages' =
               [fetchedLocaleMessages EXCEPT !.target = r.value]
  /\ UNCHANGED <<cldrLocale, savedLocale, ret>>

\* The first async function: refetched.target = await fetchLocaleMessages(..).
\* Were the awaited promise to reject, Promise.all and so init() would reject.
TargetFetched(l, outcome) ==
  /\ loads[l].pc = "awaiting" /\ ~loads[l].targetDone
  /\ LET r == fetchLocaleMessages(loads[l].targetLocale, outcome)
     IN  loads' = [loads EXCEPT ![l] =
           IF r.rejected THEN Settled("rejected")
           ELSE [@ EXCEPT !.refetched.target = r.value, !.targetDone = TRUE]]
  /\ UNCHANGED <<fetchedLocaleMessages, cldrLocale, savedLocale, ret>>

\* Faulty variant of FallbackFetched: the fallback fetch is awaited after the
\* target fetch instead of beside it.
FallbackFetched_AfterTarget(l, outcome) ==
  /\ loads[l].pc = "awaiting" /\ loads[l].targetDone /\ ~loads[l].fallbackDone
  /\ LET r == fetchLocaleMessages(loads[l].fallbackLocale, outcome)
     IN  loads' = [loads EXCEPT ![l] =
           IF r.rejected THEN Settled("rejected")
           ELSE [@ EXCEPT !.refetched.fallback = r.value, !.fallbackDone = TRUE]]
  /\ UNCHANGED <<fetchedLocaleMessages, cldrLocale, savedLocale, ret>>

\* The second async function: refetched.fallback = await fetchLocaleMessages(def).
FallbackFetched(l, outcome) ==
  /\ loads[l].pc = "awaiting" /\ ~loads[l].fallbackDone
  /\ LET r == fetchLocaleMessages(loads[l].fallbackLocale, outcome)
     IN  loads' = [loads EXCEPT ![l] =
           IF r.rejected THEN Settled("rejected")
           ELSE [@ EXCEPT !.refetched.fallback = r.value, !.fallbackDone = TRUE]]
  /\ UNCHANGED <<fetchedLocaleMessages, cldrLocale, savedLocale, ret>>

\* Faulty variant of Assigned: the cldr entry follows the bundle that was
\* fetched, the en entry being used when the target fetch failed.
Assigned_CldrOfFetchedTarget(refetched) ==
  [fetchedLocaleMessages |-> refetched,
   cldrLocale |-> IF refetched.target.loaded
                  THEN CldrEntryFor(getCurrentLocale)
                  ELSE L_en]

\* Lines 144-145: what init() assigns to the two module variables once
\* Promise.all has resolved.
Assigned(refetched) ==
  [fetchedLocaleMessages |-> refetched,
   cldrLocale |-> CldrEntryFor(getCurrentLocale)]

\* Faulty variant of InitComplete: the fetched pair is used only when both
\* fetches succeeded, else both slots are set to null.
InitComplete_AllOrNothing(l) ==
  /\ loads[l].pc = "awaiting" /\ loads[l].targetDone /\ loads[l].fallbackDone
  /\ fetchedLocaleMessages' =
       IF loads[l].refetched.target.loaded /\ loads[l].refetched.fallback.loaded
       THEN loads[l].refetched ELSE NoRefetched
  /\ cldrLocale' = Assigned(loads[l].refetched).cldrLocale
  /\ loads' = [loads EXCEPT ![l] = Settled("fulfilled")]
  /\ UNCHANGED <<savedLocale, ret>>

\* Faulty variant of InitComplete: a slot whose fetch failed keeps the bundle
\* it held before.
InitComplete_KeepOldOnFailure(l) ==
  /\ loads[l].pc = "awaiting" /\ loads[l].targetDone /\ loads[l].fallbackDone
  /\ fetchedLocaleMessages' =
       [target   |-> IF loads[l].refetched.target.loaded
                     THEN loads[l].refetched.target
                     ELSE fetchedLocaleMessages.target,
        fallback |-> IF loads[l].refetched.fallback.loaded
                     THEN loads[l].refetched.fallback
                     ELSE fetchedLocaleMessages.fallback]
  /\ cldrLocale' = Assigned(loads[l].refetched).cldrLocale
  /\ loads' = [loads EXCEPT ![l] = Settled("fulfilled")]
  /\ UNCHANGED <<savedLocale, ret>>

\* Faulty variant of InitComplete: a call that finds another call already
\* fulfilled keeps the pair in use.
InitComplete_KeepEarlierResult(l) ==
  /\ loads[l].pc = "awaiting" /\ loads[l].targetDone /\ loads[l].fallbackDone
  /\ fetchedLocaleMessages' =
       IF \E m \in Loads \ {l} : loads[m].pc = "fulfilled"
       THEN fetchedLocaleMessages
       ELSE loads[l].refetched
  /\ cldrLocale' = Assigned(loads[l].refetched).cldrLocale
  /\ loads' = [loads EXCEPT ![l] = Settled("fulfilled")]
  /\ UNCHANGED <<savedLocale, ret>>

\* Faulty variant of InitComplete: the cldr entry is looked up for the locale
\* read when the call started (the locale of the target fetch).
InitComplete_CldrFromStart(l) ==
  /\ loads[l].pc = "awaiting" /\ loads[l].targetDone /\ loads[l].fallbackDone
  /\ fetchedLocaleMessages' = loads[l].refetched
  /\ cldrLocale' = CldrEntryFor(loads[l].targetLocale)
  /\ loads' = [loads EXCEPT ![l] = Settled("fulfilled")]
  /\ UNCHANGED <<savedLocale, ret>>

\* init() after the await: both module variables are assigned and the
\* promise of init() is fulfilled.
InitComplete(l) ==
  /\ loads[l].pc = "awaiting" /\ loads[l].targetDone /\ loads[l].fallbackDone
  /\ fetchedLocaleMessages' = Assigned(loads[l].refetched).fetchedLocaleMessages
  /\ cldrLocale' = Assigned(loads[l].refetched).cldrLocale
  /\ loads' = [loads EXCEPT ![l] = Settled("fulfilled")]
  /\ UNCHANGED <<savedLocale, ret>>

\* Faulty variant of GetMessage: an entry found in the fallback bundle only is
\* copied into the target bundle.
GetMessage_CopiesFallbackHit(messageName, substitutions) ==
  /\ ret' = [called |-> TRUE, messageName |-> messageName,
             substitutions |-> substitutions,
             value |-> getMessage(messageName, substitutions)]
  /\ fetchedLocaleMessages' =
       LET target   == fetchedLocaleMessages.target
           fallback == fetchedLocaleMessages.fallback
       IN  IF /\ target.loaded /\ messageName \notin DOMAIN target.messages
              /\ fallback.loaded /\ messageName \in DOMAIN fallback.messages
           THEN [target   |-> Bundle([k \in (DOMAIN target.messages) \cup {messageName} |->
                                       IF k = messageName
                                       THEN fallback.messages[k]
                                       ELSE target.messages[k]]),
                 fallback |-> fallback]
           ELSE fetchedLocaleMessages
  /\ UNCHANGED <<cldrLocale, savedLocale, loads>>

\* A call getMessage(messageName, substitutions) and its return value.
GetMessage(messageName, substitutions) ==
  /\ ret' = [called |-> TRUE, messageName |-> messageName,
             substitutions |-> substitutions,
             value |-> getMessage(messageName, substitutions)]
  /\ UNCHANGED <<fetchedLocaleMessages, cldrLocale, savedLocale, loads>>

\* The init() calls in flight.
InFlight == {l \in Loads : loads[l].pc = "awaiting"}

\* The history after call l has started: l remembers the calls in flight at
\* that moment, and no call remembers the earlier run of l any more.
StartedIn(l) ==
  [writer |-> hist.writer,
   older  |-> [m \in Loads |->
                 IF m = l THEN InFlight \ {l} ELSE hist.older[m] \ {l}]]

\* The history after call l has assigned the module variables.
CompletedBy(l) == [writer |-> l, older |-> hist.older]

\* The continuation of call l after the await, with the history it leaves.
Continuation(l) ==
  InitComplete(l) /\ hist' = CompletedBy(l) /\ UNCHANGED <<twin, others>>

\* The resolver as the application drives it: init() calls are awaited one
\* after another (call record 1), the preference changes and messages are
\* resolved at any moment in between.
Next ==
  \/ (\E locale \in SavedLocaleChoices : SetSavedLocale(locale))
       /\ UNCHANGED <<hist, twin, others>>
  \/ InitStart(1) /\ hist' = StartedIn(1) /\ UNCHANGED <<twin, others>>
  \/ (\E outcome \in FetchOutcomes : TargetFetched(1, outcome))
       /\ UNCHANGED <<hist, twin, others>>
  \/ (\E outcome \in FetchOutcomes : FallbackFetched(1, outcome))
       /\ UNCHANGED <<hist, twin, others>>
  \/ Continuation(1)
  \/ (\E messageName \in MessageNames, substitutions \in SubstitutionChoices :
         GetMessage(messageName, substitutions))
       /\ UNCHANGED <<hist, twin, others>>

Spec == Init /\ [][Next]_vars

\* ------------------------------------------------------ overlapping init()
\* init() is called while another init() may be in flight (nothing in the
\* module serialises the calls); no message is resolved.
NextOverlap ==
  \/ (\E locale \in SavedLocaleChoices : SetSavedLocale(locale))
       /\ UNCHANGED <<hist, twin, others>>
  \/ \E l \in Loads : InitStart(l) /\ hist' = StartedIn(l) /\ UNCHANGED <<twin, others>>
  \/ (\E l \in Loads, outcome \in FetchOutcomes : TargetFetched(l, outcome))
       /\ UNCHANGED <<hist, twin, others>>
  \/ (\E l \in Loads, outcome \in FetchOutcomes : FallbackFetched(l, outcome))
       /\ UNCHANGED <<hist, twin, others>>
  \/ \E l \in Loads : Continuation(l)

SpecOverlap == Init /\ [][NextOverlap]_vars

\* ------------------------------------------------------------ event loop
\* init() calls one after another, no message being resolved.
NextLive ==
  \/ (\E locale \in SavedLocaleChoices : SetSavedLocale(locale))
       /\ UNCHANGED <<hist, twin, others>>
  \/ InitStart(1) /\ hist' = StartedIn(1) /\ UNCHANGED <<twin, others>>
  \/ (\E outcome \in FetchOutcomes : TargetFetched(1, outcome))
       /\ UNCHANGED <<hist, twin, others>>
  \/ (\E outcome \in FetchOutcomes : FallbackFetched(1, outcome))
       /\ UNCHANGED <<hist, twin, others>>
  \/ Continuation(1)

\* On the event loop the continuation of init() is a queued job once
\* Promise.all has resolved, and the loop runs it.  Nothing is assumed about
\* the network: a fetch may never settle.
SpecLive == Init /\ [][NextLive]_vars /\ WF_vars(Continuation(1))

\* ------------------------------------------------------------- two runs
\* Two runs of the module side by side on one schedule: the same preference
\* changes, the same init() calls (one at a time) and the same moments at
\* which the fetches settle and init() completes.  Only how each fetch ends
\* is chosen separately for the second run, which lives in `twin`.
TwinStarted == [twin EXCEPT !.refetched = NoRefetched]

TwinTargetFetched(outcome) ==
  [twin EXCEPT !.refetched.target =
     fetchLocaleMessages(loads[1].targetLocale, outcome).value]

TwinFallbackFetched(outcome) ==
  [twin EXCEPT !.refetched.fallback =
     fetchLocaleMessages(loads[1].fallbackLocale, outcome).value]

TwinCompleted ==
  [fetchedLocaleMessages |-> Assigned(twin.refetched).fetchedLocaleMessages,
   cldrLocale |-> Assigned(twin.refetched).cldrLocale,
   refetched |-> NoRefetched]

NextTwin ==
  \/ (\E locale \in SavedLocaleChoices : SetSavedLocale(locale))
       /\ UNCHANGED <<hist, twin, others>>
  \/ InitStart(1) /\ hist' = StartedIn(1) /\ twin' = TwinStarted
       /\ UNCHANGED others
  \/ \E outcome \in FetchOutcomes, other \in FetchOutcomes :
       TargetFetched(1, outcome) /\ twin' = TwinTargetFetched(other)
         /\ UNCHANGED <<hist, others>>
  \/ \E outcome \in FetchOutcomes, other \in FetchOutcomes :
       FallbackFetched(1, outcome) /\ twin' = TwinFallbackFetched(other)
         /\ UNCHANGED <<hist, others>>
  \/ InitComplete(1) /\ hist' = CompletedBy(1) /\ twin' = TwinCompleted
       /\ UNCHANGED others

SpecTwin == Init /\ [][NextTwin]_vars

\* ================================================================== claims
Target == fetchedLocaleMessages.target

Fallback == fetchedLocaleMessages.fallback

\* The bundle in a slot holds the key (as a key of the parsed JSON object).
Holds(slot, name) == slot.loaded /\ name \in DOMAIN slot.messages

T_HiAnn == <<"H", "i", " ">> \o V_Ann

T_SalutAnn == <<"S", "a", "l", "u", "t", " ">> \o V_Ann

C2_AbsentKeyResolvesEmpty ==
  \A name \in MessageNames, subs \in SubstitutionChoices :
    (~Holds(Target, name) /\ ~Holds(Fallback, name)) =>
      getMessage(name, subs) = EmptyString

\* C3: a key the target bundle holds resolves from the target bundle's
\* message, whatever the fallback bundle has under that key.
C3_TargetTakesPriority ==
  \A name \in MessageNames, subs \in SubstitutionChoices :
    /\ Holds(Target, name) =>
         /\ LookupMessage(name).val = Target.messages[name]
         /\ getMessage(name, subs) = ReturnFor(Target.messages[name], subs)
    /\ (Holds(Fallback, name) /\ Holds(Target, name)
          /\ ReturnFor(Fallback.messages[name], subs)
               # ReturnFor(Target.messages[name], subs))
         => getMessage(name, subs) # ReturnFor(Fallback.messages[name], subs)

\* C3 witness: both bundles hold "greet" with different templates and
\* getMessage("greet", ["Ann"]) has returned the target's "Salut Ann".
C3_Witness ==
  /\ Holds(Target, "greet") /\ Holds(Fallback, "greet")
  /\ Target.messages["greet"] # Fallback.messages["greet"]
  /\ ret.called /\ ret.messageName = "greet"
  /\ ret.substitutions = Array(<<Str(V_Ann)>>)
  /\ ret.value = Str(T_SalutAnn)

\* The name -> value mapping getMessage builds for a message and arguments.
ParamsFor(val, subs) == ReduceParams(val, toList(subs), 0, NoParams)

\* The placeholder descriptor content is "$N" with N >= 1.
IsDollarN(content) ==
  /\ content.t = "string" /\ Len(content.s) >= 2 /\ content.s[1] = "$"
  /\ ~ToNumber(Tail(content.s)).nan /\ ToNumber(Tail(content.s)).n >= 1

\* C4: for a found message whose placeholder p has content "$N", the N-th
\* argument is bound to p and the result is the template processed with that
\* binding; "Hi {name}" with name -> "$1" and ["Ann"] gives "Hi Ann".
C4_PlaceholderBoundToNthArgument ==
  /\ \A name \in MessageNames :
       LET found == LookupMessage(name)
           val   == found.val
       IN  (found.defined /\ val.hasPlaceholders) =>
             \A subs \in SubstitutionChoices :
               LET args   == toList(subs)
                   params == ParamsFor(val, subs)
                   text   == processTemplate(val.message, params)
               IN  \A i \in 1..Len(val.placeholders) :
                     LET ph == val.placeholders[i]
                         N  == ToNumber(Tail(ph.content.s)).n
                     IN  (IsDollarN(ph.content) /\ N <= Len(args)) =>
                           /\ ph.name \in DOMAIN params
                           /\ params[ph.name] = args[N]
                           /\ text # Thrown => getMessage(name, subs) = text
  /\ (LookupMessage("greet").defined
        /\ LookupMessage("greet").val.message = Str(T_HiName))
       => getMessage("greet", Array(<<Str(V_Ann)>>)) = Str(T_HiAnn)

\* C4 witness: getMessage("greet", ["Ann"]) has returned "Hi Ann" from
\* "Hi {name}" with name -> "$1".
C4_Witness ==
  /\ LookupMessage("greet").defined
  /\ LookupMessage("greet").val.message = Str(T_HiName)
  /\ LookupMessage("greet").val.placeholders
       = <<Placeholder(N_name, Str(Dollar(1)))>>
  /\ ret.called /\ ret.messageName = "greet"
  /\ ret.substitutions = Array(<<Str(V_Ann)>>)
  /\ ret.value = Str(T_HiAnn)

\* C5 (as claimed): every argument position i >= 0 of a message with
\* placeholders is bound, under placeholderList[i] when that entry exists and
\* under the index i itself otherwise.
C5_EveryArgumentBound ==
  \A name \in MessageNames, subs \in SubstitutionChoices :
    LET found == LookupMessage(name)
        val   == found.val
        args  == toList(subs)
    IN  (found.defined /\ val.hasPlaceholders) =>
          \A i \in 0..(Len(args) - 1) :
            LET key == IF i \in DOMAIN val.placeholderList
                       THEN val.placeholderList[i] ELSE NumberToString(i)
            IN  key \in DOMAIN ParamsFor(val, subs)

\* C6: a single value and the one-element array holding it resolve alike.
C6_SingleValueAsOneElementList ==
  \A name \in MessageNames, v \in {Undefined, Str(V_Ann), Str(V_Bob)} :
    getMessage(name, Single(v)) = getMessage(name, Array(<<v>>))

\* C6 witness: getMessage("greet", "Ann") has returned "Hi Ann", which is
\* what getMessage("greet", ["Ann"]) returns.
C6_Witness ==
  /\ ret.called /\ ret.messageName = "greet"
  /\ ret.substitutions = Single(Str(V_Ann))
  /\ ret.value = Str(T_HiAnn)
  /\ getMessage("greet", Array(<<Str(V_Ann)>>)) = Str(T_HiAnn)

\* C7: a found message that declares no placeholders resolves to its raw
\* template, whatever the substitutions are.
C7_NoPlaceholdersRawTemplate ==
  \A name \in MessageNames, subs \in SubstitutionChoices :
    LET found == LookupMessage(name)
    IN  (found.defined /\ ~found.val.hasPlaceholders)
          => getMessage(name, subs) = found.val.message

\* C7 witness: "Ta {1}" declares no placeholders and getMessage("bye", args)
\* with three arguments has returned it as written.
C7_Witness ==
  /\ LookupMessage("bye").defined
  /\ ~LookupMessage("bye").val.hasPlaceholders
  /\ LookupMessage("bye").val.message = Str(T_Cheerio)
  /\ ret.called /\ ret.messageName = "bye"
  /\ ret.substitutions = Array(ArgList(MaxArgs))
  /\ ret.value = Str(T_Cheerio)

\* C8: a getMessage call (the only step that changes ret) for a found message
\* with placeholders whose template processing throws returns "" (nothing
\* reaches the caller) and leaves the bundle pair and cldrLocale as they were.
C8_TemplateErrorGivesEmpty ==
  [][(ret' # ret) =>
       LET name  == ret'.messageName
           subs  == ret'.substitutions
           found == LookupMessage(name)
       IN  (/\ found.defined /\ found.val.hasPlaceholders
            /\ processTemplate(found.val.message, ParamsFor(found.val, subs))
                 = Thrown)
           => /\ ret'.value = EmptyString
              /\ UNCHANGED <<fetchedLocaleMessages, cldrLocale>>]_vars

\* C8 witness: getMessage("broken", args) has returned "" for the template
\* "Oops {x", whose processing throws.
C8_Witness ==
  /\ LookupMessage("broken").defined
  /\ LookupMessage("broken").val.hasPlaceholders
  /\ processTemplate(LookupMessage("broken").val.message,
                     ParamsFor(LookupMessage("broken").val, ret.substitutions))
       = Thrown
  /\ ret.called /\ ret.messageName = "broken"
  /\ ret.value = EmptyString

\* C9 (as claimed): every getMessage call returns a string.
C9_AlwaysReturnsString ==
  ret.called => ret.value.t = "string"

\* Both fetches of the init() call l have settled with null.
BothFailed(l) ==
  /\ loads[l].pc = "awaiting" /\ loads[l].targetDone /\ loads[l].fallbackDone
  /\ loads[l].refetched = NoRefetched

AllResolveEmpty ==
  \A name \in MessageNames, subs \in SubstitutionChoices :
    getMessage(name, subs) = EmptyString

\* C10: a failed fetch settles its slot with null and leaves init() running;
\* when both have failed, init() is fulfilled with both slots null, whatever
\* they held before; with both slots null every message resolves to "", and
\* the pair changes again only when an init() with a fetched bundle completes.
C10_BothFetchesFail ==
  /\ [][\A l \in Loads, outcome \in FetchOutcomes :
          /\ (TargetFetched(l, outcome)
                /\ FetchBody(loads[l].targetLocale, outcome).threw)
               => /\ loads'[l].pc = "awaiting" /\ loads'[l].targetDone
                  /\ loads'[l].refetched.target = Null
          /\ (FallbackFetched(l, outcome)
                /\ FetchBody(loads[l].fallbackLocale, outcome).threw)
               => /\ loads'[l].pc = "awaiting" /\ loads'[l].fallbackDone
                  /\ loads'[l].refetched.fallback = Null]_vars
  /\ [][\A l \in Loads :
          (BothFailed(l) /\ loads'[l].pc # "awaiting")
            => /\ loads'[l].pc = "fulfilled"
               /\ fetchedLocaleMessages' = NoRefetched
               /\ AllResolveEmpty']_vars
  /\ [](fetchedLocaleMessages = NoRefetched => AllResolveEmpty)
  /\ [][(fetchedLocaleMessages = NoRefetched
           /\ fetchedLocaleMessages' # NoRefetched)
          => \E l \in Loads :
               /\ InitComplete(l)
               /\ loads[l].refetched # NoRefetched]_vars

\* C10 witness: an init() whose fetches both failed has completed, both slots
\* are null, and the value returned before ("Hi Ann") shows that an earlier
\* init() had filled them.
C10_Witness ==
  /\ fetchedLocaleMessages = NoRefetched
  /\ loads[1].pc = "fulfilled"
  /\ ret.called /\ ret.messageName = "greet" /\ ret.value = Str(T_HiAnn)
  /\ AllResolveEmpty

\* Exactly one of the two fetches of the init() call l failed.
ExactlyOneFailed(l) ==
  /\ loads[l].pc = "awaiting" /\ loads[l].targetDone /\ loads[l].fallbackDone
  /\ loads[l].refetched.target.loaded # loads[l].refetched.fallback.loaded

\* C11: the two fetches of one init() fail independently.  A fetch that
\* settles, by success or by failure, writes its own slot only (the fetched
\* bundle, or null) and leaves the other slot and init() as they are; when
\* exactly one fetch has failed, init() is fulfilled and the pair in use has
\* null in the failed slot and the fetched bundle in the other.
C11_FetchesFailIndependently ==
  [][loads' # loads =>
       \A l \in Loads :
         /\ \A outcome \in FetchOutcomes :
              /\ TargetFetched(l, outcome) =>
                   /\ loads'[l].pc = "awaiting"
                   /\ loads'[l].refetched.fallback = loads[l].refetched.fallback
                   /\ loads'[l].fallbackDone = loads[l].fallbackDone
                   /\ loads'[l].refetched.target =
                        (IF FetchBody(loads[l].targetLocale, outcome).threw
                         THEN Null
                         ELSE FetchBody(loads[l].targetLocale, outcome).value)
              /\ FallbackFetched(l, outcome) =>
                   /\ loads'[l].pc = "awaiting"
                   /\ loads'[l].refetched.target = loads[l].refetched.target
                   /\ loads'[l].targetDone = loads[l].targetDone
                   /\ loads'[l].refetched.fallback =
                        (IF FetchBody(loads[l].fallbackLocale, outcome).threw
                         THEN Null
                         ELSE FetchBody(loads[l].fallbackLocale, outcome).value)
         /\ (ExactlyOneFailed(l) /\ loads'[l].pc # "awaiting") =>
              /\ loads'[l].pc = "fulfilled"
              /\ fetchedLocaleMessages'.target = loads[l].refetched.target
              /\ fetchedLocaleMessages'.fallback = loads[l].refetched.fallback]_vars

\* C11 witness: an init() whose target fetch brought the fr bundle and whose
\* fallback fetch failed has completed.
C11_Witness ==
  /\ loads[1].pc = "fulfilled"
  /\ Holds(Target, "greet") /\ Target.messages["greet"].message = Str(T_SalutName)
  /\ Fallback = Null

\* The packaged bundle of the locale has a placeholder descriptor whose
\* content is missing (not a string).
HasUndecodableDescriptor(locale) ==
  /\ DirName(locale) \in DOMAIN LocaleFiles
  /\ \E name \in DOMAIN LocaleFiles[DirName(locale)] :
       DescriptorThrows(LocaleFiles[DirName(locale)][name])

\* C12: a placeholder descriptor that cannot be decoded never makes init()
\* reject nor getMessage throw.  A bundle with a descriptor without content
\* settles its slot with null and leaves init() running; a descriptor whose
\* content is not "$N" leaves its placeholder unbound, whatever the
\* arguments are, and getMessage returns a value for every key and argument
\* list.
C12_UndecodableDescriptorDegrades ==
  /\ [](\A l \in Loads : loads[l].pc # "rejected")
  /\ [][loads' # loads =>
         \A l \in Loads :
           /\ (TargetFetched(l, "ok") /\ HasUndecodableDescriptor(loads[l].targetLocale))
                => /\ loads'[l].pc = "awaiting" /\ loads'[l].targetDone
                   /\ loads'[l].refetched.target = Null
           /\ (FallbackFetched(l, "ok")
                 /\ HasUndecodableDescriptor(loads[l].fallbackLocale))
                => /\ loads'[l].pc = "awaiting" /\ loads'[l].fallbackDone
                   /\ loads'[l].refetched.fallback = Null]_vars
  /\ [](ret.called =>
          LET found == LookupMessage(ret.messageName)
              val   == found.val
          IN  /\ ret.value # Thrown
              /\ getMessage(ret.messageName, ret.substitutions) # Thrown
              /\ (found.defined /\ val.hasPlaceholders) =>
                   \A i \in 1..Len(val.placeholders) :
                     ~IsDollarN(val.placeholders[i].content) =>
                       val.placeholders[i].name
                         \notin DOMAIN ParamsFor(val, ret.substitutions))

\* C12 witness: the de bundle, whose descriptor has no content, was fetched
\* for the target slot and the slot is null after init(); the fr bundle
\* fetched before has the descriptor "$w", and getMessage("idx", ["Ann"])
\* returned its template "{w}" with the placeholder unbound.
C12_Witness ==
  /\ savedLocale = L_de /\ loads[1].pc = "fulfilled"
  /\ Target = Null /\ Fallback.loaded
  /\ ret.called /\ ret.messageName = "idx"
  /\ ret.substitutions = Array(<<Str(V_Ann)>>)
  /\ ret.value = Str(T_Word)

\* Both fetches of the init() call l have settled.
BothSettled(l) ==
  loads[l].pc = "awaiting" /\ loads[l].targetDone /\ loads[l].fallbackDone

\* The step is a step of the init() call l.
StepOf(l) ==
  \/ InitStart(l)
  \/ \E outcome \in FetchOutcomes : TargetFetched(l, outcome)
  \/ \E outcome \in FetchOutcomes : FallbackFetched(l, outcome)
  \/ InitComplete(l)

\* C13: with overlapping init() calls the pair in use changes only to the
\* pair of one call whose fetches have both settled, both slots at once,
\* and the slots a call has fetched are written by that call alone; so the
\* pair in use never has the target of one call and the fallback of another.
C13_PairFromOneCall ==
  /\ [][fetchedLocaleMessages' # fetchedLocaleMessages =>
         \E l \in Loads :
           /\ BothSettled(l) /\ loads'[l].pc = "fulfilled"
           /\ fetchedLocaleMessages'.target = loads[l].refetched.target
           /\ fetchedLocaleMessages'.fallback = loads[l].refetched.fallback]_vars
  /\ [][\A l \in Loads :
          loads'[l].refetched # loads[l].refetched => StepOf(l)]_vars

\* C13 witness: call 2 started while call 1 was in flight; call 1 has
\* completed with both of its bundles, call 2 has fetched another target
\* bundle and no fallback bundle, and the pair in use is the pair of call 1.
C13_Witness ==
  /\ 1 \in hist.older[2] /\ hist.writer = 1 /\ loads[1].pc = "fulfilled"
  /\ BothSettled(2)
  /\ loads[2].refetched.target.loaded /\ loads[2].refetched.fallback = Null
  /\ Target.loaded /\ Target # loads[2].refetched.target
  /\ Fallback.loaded

\* A call whose fetches had both settled has run its continuation.
Completes(l) == BothSettled(l) /\ loads'[l].pc = "fulfilled"

\* C14: while init() calls are in flight, every step other than the
\* completion of a call whose fetches have both settled leaves unchanged the
\* pair in use and the cached cldr entry, which are all that getMessage and
\* getCldrLocale read; the completing step installs the whole fetched pair
\* at once, however far apart the two fetches settled.
C14_UnchangedWhileInFlight ==
  /\ [][(\A l \in Loads : ~Completes(l))
          => /\ fetchedLocaleMessages' = fetchedLocaleMessages
             /\ getCldrLocale' = getCldrLocale]_vars
  /\ [][\A l \in Loads :
          Completes(l) => fetchedLocaleMessages' = loads[l].refetched]_vars

\* C14 witness: the target fetch of call 1 has brought a bundle, its fallback
\* fetch is still pending, and the pair in use is still the one an earlier
\* init() installed, with another target bundle.
C14_Witness ==
  /\ loads[1].pc = "awaiting" /\ loads[1].targetDone /\ ~loads[1].fallbackDone
  /\ loads[1].refetched.target.loaded
  /\ Target.loaded /\ Target # loads[1].refetched.target
  /\ hist.writer # 0

\* The runs of calls l and m overlapped: one was in flight when the other
\* started.
Overlapped(l, m) == l \in hist.older[m] \/ m \in hist.older[l]

\* C15: when the second of two overlapping init() calls completes, the pair
\* in use becomes the pair that call fetched, whether it started before or
\* after the call that completed first.
C15_LastCompletedWins ==
  [][\A l \in Loads, m \in Loads :
       (l # m /\ Completes(l) /\ loads[m].pc = "fulfilled" /\ Overlapped(l, m))
         => /\ fetchedLocaleMessages' = loads[l].refetched
            /\ hist'.writer = l]_vars

\* C15 witness: call 1 started with no saved preference (target en-GB), call
\* 2 started after the preference became fr while call 1 was in flight, call
\* 2 completed first and call 1 last: the pair in use has the en_GB bundle
\* as target although the preference is fr.
C15_Witness ==
  /\ 1 \in hist.older[2] /\ hist.writer = 1
  /\ loads[1].pc = "fulfilled" /\ loads[2].pc = "fulfilled"
  /\ savedLocale = L_fr
  /\ Holds(Target, "bye") /\ Target.messages["bye"].message = Str(T_Cheerio)

\* C16: the step in which an init() completes sets the cached cldr entry to
\* the table entry of the locale current at that moment (the saved
\* preference if set, else the UI language), or to the en entry when the
\* table has none for it, and replaces the pair in use in that same step;
\* the cached entry changes in no other step.
C16_CldrEntryAtCompletion ==
  /\ [][\A l \in Loads :
          Completes(l) =>
            /\ getCldrLocale' =
                 (IF OrElse(savedLocale, getNativeLocale) \in CldrjsLocales
                  THEN OrElse(savedLocale, getNativeLocale)
                  ELSE L_en)
            /\ fetchedLocaleMessages' = loads[l].refetched
            /\ savedLocale' = savedLocale]_vars
  /\ [][cldrLocale' # cldrLocale => \E l \in Loads : Completes(l)]_vars

\* C16 witness: an init() that started with no saved preference (target
\* en-GB) completed after the preference had become fr: the cached entry is
\* fr and the target bundle is the en_GB one.
C16_Witness ==
  /\ loads[1].pc = "fulfilled" /\ savedLocale = L_fr
  /\ getCldrLocale = L_fr
  /\ Holds(Target, "bye") /\ Target.messages["bye"].message = Str(T_Cheerio)

\* The current locale has no entry in cldrjs-locales.json.
NoCldrEntry == getCurrentLocale \notin CldrjsLocales

\* C17 (as claimed): in every state in which the current locale has no
\* entry in the table, getNumberSymbols returns the symbols of en, also
\* after the saved preference has changed and no init() has run since.
C17_BaselineWheneverNoEntry ==
  NoCldrEntry => getNumberSymbols = CldrSymbols[L_en]

\* C17 (amended): getNumberSymbols returns the symbols of en before any
\* init() has completed and after every init() that completes while the
\* current locale has no entry in the table; between completions it keeps
\* returning the symbols selected by the last one, whatever the saved
\* preference becomes.
C17_BaselineAsOfLastInit ==
  /\ getNumberSymbols = CldrSymbols[L_en]
  /\ [][\A l \in Loads :
          (Completes(l) /\ NoCldrEntry) => getNumberSymbols' = CldrSymbols[L_en]]_vars
  /\ [][(\A l \in Loads : ~Completes(l)) => getNumberSymbols' = getNumberSymbols]_vars

\* C17 witness: an init() has completed while the saved preference was tlh,
\* which has no entry, after an earlier init() had selected the fr entry
\* (getMessage returned the fr message then); the symbols are those of en.
C17_Witness ==
  /\ hist.writer = 1 /\ loads[1].pc = "fulfilled"
  /\ savedLocale = L_tlh /\ NoCldrEntry
  /\ getNumberSymbols = CldrSymbols[L_en]
  /\ ret.called /\ ret.messageName = "greet" /\ ret.value = Str(T_SalutAnn)

\* The value the last getMessage call returned is what the same call
\* returns now.
Fresh ==
  ret.called /\ ret.value = getMessage(ret.messageName, ret.substitutions)

\* C18: getMessage is a pure read.  A call changes neither the pair in use,
\* nor the cached cldr entry, nor any init() in flight, and returns the
\* resolution against the pair in use; as long as the last returned value
\* is still the resolution against the pair in use, a call with the same
\* arguments returns that same value again.
C18_GetMessageIsPureRead ==
  /\ [][ret' # ret =>
         /\ fetchedLocaleMessages' = fetchedLocaleMessages
         /\ cldrLocale' = cldrLocale /\ loads' = loads /\ savedLocale' = savedLocale
         /\ ret'.called
         /\ ret'.value = getMessage(ret'.messageName, ret'.substitutions)]_vars
  /\ [][(/\ ret' # ret
          /\ ret'.messageName = ret.messageName
          /\ ret'.substitutions = ret.substitutions
          /\ Fresh)
         => ret'.value = ret.value]_vars

\* C18 witness: getMessage("greet", "Ann") has returned "Salut Ann" while an
\* init() whose fetches have both settled has not completed yet, and the
\* same call still resolves to that value.
C18_Witness ==
  /\ BothSettled(1) /\ loads[1].refetched = NoRefetched
  /\ Fresh /\ ret.messageName = "greet"
  /\ ret.substitutions = Single(Str(V_Ann))
  /\ ret.value = Str(T_SalutAnn)

\* C19: two runs that differ only in how their fetches end (they share the
\* saved preference and the UI language, hence the current locale) agree,
\* in every state, on the cached cldr entry and so on the number symbols,
\* whatever bundles each of them has in use.
C19_CldrIndependentOfFetches ==
  /\ getCldrLocale = twin.cldrLocale
  /\ getNumberSymbols = CldrSymbols[twin.cldrLocale]

\* C19 witness: after an init() with the preference fr the first run has the
\* fr bundle as target and the second run has no target bundle (its fetch
\* failed), and both have cached the fr entry.
C19_Witness ==
  /\ loads[1].pc = "fulfilled" /\ savedLocale = L_fr
  /\ Holds(Target, "greet") /\ twin.fetchedLocaleMessages.target = Null
  /\ getCldrLocale = L_fr /\ twin.cldrLocale = L_fr

\* C20: both fetches of an init() are pending as soon as it has started and
\* each can settle whether or not the other has; once both have settled the
\* call completes, and at that moment it is the call that assigned the
\* module variables last.
C20_BothFetchesThenCompletion ==
  /\ [](/\ (loads[1].pc = "awaiting" /\ ~loads[1].targetDone)
            => ENABLED (TargetFetched(1, "ok") /\ UNCHANGED <<hist, twin, others>>)
        /\ (loads[1].pc = "awaiting" /\ ~loads[1].fallbackDone)
            => ENABLED (FallbackFetched(1, "ok") /\ UNCHANGED <<hist, twin, others>>))
  /\ BothSettled(1) ~> (loads[1].pc = "fulfilled" /\ hist.writer = 1)

\* C20 witness: an init() is in flight with its fallback fetch settled before
\* its target fetch, after an earlier init() whose fetches had both settled
\* completed and installed the fr bundle.
C20_Witness ==
  /\ hist.writer = 1 /\ Holds(Target, "greet") /\ Fallback.loaded
  /\ loads[1].pc = "awaiting" /\ loads[1].fallbackDone /\ ~loads[1].targetDone
  /\ loads[1].refetched.fallback.loaded

\* The placeholders of the message have contents "$N" with distinct N.
DistinctDollarN(val) ==
  \A i \in 1..Len(val.placeholders), j \in 1..Len(val.placeholders) :
    /\ IsDollarN(val.placeholders[i].content)
    /\ i # j => val.placeholders[i].content # val.placeholders[j].content

\* The messages of a bundle in use carry the lists appendPlaceholderLists
\* builds.
ListsBuilt(slot) ==
  slot.loaded =>
    \A name \in DOMAIN slot.messages :
      LET val == slot.messages[name]
      IN  /\ ~val.hasPlaceholders => ~val.hasList
          /\ val.hasPlaceholders => val.hasList
          /\ (val.hasPlaceholders /\ DistinctDollarN(val)) =>
               \A i \in 1..Len(val.placeholders) :
                 LET n == ToNumber(Tail(val.placeholders[i].content.s)).n
                 IN  /\ (n - 1) \in DOMAIN val.placeholderList
                     /\ val.placeholderList[n - 1] = val.placeholders[i].name

\* C21: in a fetched bundle every message that declares placeholders has a
\* placeholderList with placeholderList[N-1] = p for each placeholder p of
\* content "$N" (distinct N >= 1), a message without placeholders has no
\* placeholderList, and a getMessage call leaves the bundles, lists
\* included, as they are.
C21_PlaceholderListBuiltAtLoad ==
  /\ [](ListsBuilt(Target) /\ ListsBuilt(Fallback))
  /\ [](\A l \in Loads :
          ListsBuilt(loads[l].refetched.target)
            /\ ListsBuilt(loads[l].refetched.fallback))
  /\ [][ret' # ret => fetchedLocaleMessages' = fetchedLocaleMessages]_vars

\* C21 witness: the en bundle is in use as fallback; its message "broken",
\* which declares y -> "$2" before x -> "$1", has the list [x, y], its
\* message "bye" has none, and getMessage has been called on "broken".
C21_Witness ==
  /\ Holds(Fallback, "broken") /\ Holds(Fallback, "bye")
  /\ Fallback.messages["broken"].placeholderList
       = [j \in {0, 1} |-> IF j = 0 THEN <<"x">> ELSE <<"y">>]
  /\ ~Fallback.messages["bye"].hasList
  /\ ret.called /\ ret.messageName = "broken"

\* The locale whose packaged bundle is in the target slot is the one the
\* cached cldr entry was chosen for.
CldrMatchesTarget(locale) ==
  (Target.loaded /\ Target = FetchBody(locale, "ok").value)
    => getCldrLocale = CldrEntryFor(locale)

\* C22 (as claimed): once an init() has completed, the cached cldr entry is
\* the entry (or the en default) of the locale whose bundle is in the target
\* slot, also when the saved preference changed while init() was in flight.
C22_CldrOfTargetLocale ==
  hist.writer # 0 =>
    \A locale \in (SavedLocaleChoices \ {<<>>}) \cup {getNativeLocale} :
      CldrMatchesTarget(locale)

\* ========================================================= ConfirmDAppForm
\* The i18n module as loaded, untouched while a component is exercised.
ModuleAtLoad ==
  /\ fetchedLocaleMessages = NoRefetched
  /\ cldrLocale = L_en
  /\ savedLocale = <<>>
  /\ loads = [l \in Loads |-> Settled("idle")]
  /\ ret = [called |-> FALSE, messageName |-> "", substitutions |-> NoSubstitutions,
            value |-> Undefined]
  /\ hist = NoHistory
  /\ twin = TwinAtStart

\* JS numbers: an integer or NaN.
Num(n) == [t |-> "number", nan |-> FALSE, n |-> n]

NaN == [t |-> "number", nan |-> TRUE, n |-> 0]

JsAdd(a, b) == IF a.nan \/ b.nan THEN NaN ELSE Num(a.n + b.n)

\* x || 0 on a number: 0 and NaN are falsy.
OrZero(x) == IF x.nan \/ x.n = 0 THEN 0 ELSE x.n

\* op.fee ? +op.fee : 0
FeeNumber(fee) ==
  IF fee.t = "undefined" THEN Num(0)
  ELSE IF fee.t = "number" THEN (IF fee.nan \/ fee.n = 0 THEN Num(0) ELSE fee)
  ELSE IF fee.s = <<>> THEN Num(0)
  ELSE LET num == ToNumber(fee.s) IN IF num.nan THEN NaN ELSE Num(num.n)

\* payload.opParams.reduce((sum, op) => sum + (op.fee ? +op.fee : 0), 0)
RECURSIVE SumOfFees(_)
SumOfFees(fees) ==
  IF fees = <<>> THEN Num(0)
  ELSE JsAdd(SumOfFees(SubSeq(fees, 1, Len(fees) - 1)), FeeNumber(fees[Len(fees)]))

\* Payloads getDAppPayload delivers.  A confirm_operations payload has the
\* fee of each operation (missing, a number or a numeric string), the
\* storage limit of the first one, and the estimates when the dry run made
\* them: one per operation, preceded by the reveal's when one is needed.
FeeOfReveal == 4

StorageLimitAsked == 7

FeeLists == {<<Undefined>>, <<Num(5)>>, <<Num(5), Str(<<"2">>)>>}

ConnectPayload ==
  [type |-> "connect", opFees |-> <<>>, storageLimit |-> 0,
   hasEstimates |-> FALSE, estimates |-> <<>>]

SignPayload == [ConnectPayload EXCEPT !.type = "sign"]

OperationsPayload(fees, estimates) ==
  [type |-> "confirm_operations", opFees |-> fees,
   storageLimit |-> StorageLimitAsked,
   hasEstimates |-> estimates # <<>>, estimates |-> estimates]

EstimatesFor(fees) ==
  {<<>>, [i \in 1..Len(fees) |-> 1],
   [i \in 1..(Len(fees) + 1) |-> IF i = 1 THEN FeeOfReveal ELSE 1]}

PayloadChoices ==
  {ConnectPayload, SignPayload}
    \cup {OperationsPayload(fees, estimates) :
            fees \in FeeLists, estimates \in UNION {EstimatesFor(f) : f \in FeeLists}}

\* Faulty variant of revealFee: the first estimate is taken whenever there are
\* estimates.
revealFee_AnyEstimates(payload) ==
  IF payload.type = "confirm_operations" /\ payload.hasEstimates
  THEN payload.estimates[1]
  ELSE 0

\* revealFee (lines 192-202)
revealFee(payload) ==
  IF /\ payload.type = "confirm_operations"
     /\ payload.hasEstimates
     /\ Len(payload.estimates) = Len(payload.opFees) + 1
  THEN payload.estimates[1]
  ELSE 0

\* The initial modifiedTotalFeeValue and modifiedStorageLimitValue.
InitialTotalFee(payload) ==
  IF payload.type = "confirm_operations"
  THEN OrZero(JsAdd(SumOfFees(payload.opFees), Num(revealFee(payload))))
  ELSE 0

InitialStorageLimit(payload) ==
  IF payload.type = "confirm_operations" THEN payload.storageLimit ELSE 0

\* What the callbacks of the last committed render have captured.
Captured(f) ==
  [confirming |-> f.confirming, declining |-> f.declining, error |-> f.error,
   fee |-> f.modifiedTotalFeeValue, limit |-> f.modifiedStorageLimitValue]

NoCall == [method |-> "none", confirmed |-> FALSE, fee |-> 0, limit |-> 0]

\* The component after its first render with the payload.
MountedForm(payload) ==
  LET f == [mounted |-> TRUE, payload |-> payload,
            confirming |-> FALSE, declining |-> FALSE, error |-> FALSE,
            modifiedTotalFeeValue |-> InitialTotalFee(payload),
            modifiedStorageLimitValue |-> InitialStorageLimit(payload),
            pc |-> "idle", attempt |-> FALSE,
            outstanding |-> 0, call |-> NoCall,
            edited |-> FALSE, ignored |-> FALSE]
  IN  [mounted |-> TRUE, payload |-> payload,
       confirming |-> FALSE, declining |-> FALSE, error |-> FALSE,
       modifiedTotalFeeValue |-> f.modifiedTotalFeeValue,
       modifiedStorageLimitValue |-> f.modifiedStorageLimitValue,
       pc |-> "idle", attempt |-> FALSE,
       outstanding |-> 0, call |-> NoCall,
       edited |-> FALSE, ignored |-> FALSE,
       rendered |-> Captured(f)]

FormInit ==
  /\ ModuleAtLoad
  /\ \E payload \in PayloadChoices : form = MountedForm(payload)
  /\ wizard = Unmounted /\ dapps = Unmounted /\ swap = Unmounted

\* onConfirm (lines 172-186): the client method the payload type selects, with
\* the arguments it is given.
onConfirm(payload, confirmed, modifiedTotalFee, modifiedStorageLimit) ==
  CASE payload.type = "connect" ->
         [method |-> "confirmDAppPermission", confirmed |-> confirmed,
          fee |-> 0, limit |-> 0]
    [] payload.type = "confirm_operations" ->
         [method |-> "confirmDAppOperation", confirmed |-> confirmed,
          fee |-> modifiedTotalFee, limit |-> modifiedStorageLimit]
    [] payload.type = "sign" ->
         [method |-> "confirmDAppSign", confirmed |-> confirmed,
          fee |-> 0, limit |-> 0]

\* A state update made inside an event handler is committed before the next
\* event is dispatched.
Flushed(f) == [f EXCEPT !.rendered = Captured(f)]

\* Client calls that can be in flight in the model.
MaxOutstanding == 2

\* Faulty variant of Attempt: confirm does not reset the error.
Attempt_KeepError(confirmed) ==
  Flushed([form EXCEPT
    !.confirming = IF confirmed THEN TRUE ELSE @,
    !.declining = IF confirmed THEN @ ELSE TRUE,
    !.pc = "calling", !.attempt = confirmed,
    !.outstanding = @ + 1,
    !.call = onConfirm(form.payload, confirmed,
                       form.rendered.fee - revealFee(form.payload),
                       form.rendered.limit),
    !.ignored = FALSE])

\* handleConfirmClick / handleDeclineClick up to the await inside confirm:
\* the flag is set, error is reset and the client method is called.
Attempt(confirmed) ==
  Flushed([form EXCEPT
    !.confirming = IF confirmed THEN TRUE ELSE @,
    !.declining = IF confirmed THEN @ ELSE TRUE,
    !.error = FALSE,
    !.pc = "calling", !.attempt = confirmed,
    !.outstanding = @ + 1,
    !.call = onConfirm(form.payload, confirmed,
                       form.rendered.fee - revealFee(form.payload),
                       form.rendered.limit),
    !.ignored = FALSE])

\* Between setError(err) and the reset of the flag only microtasks run: no
\* user event is dispatched.
UserCanAct == form.mounted /\ form.pc # "errorSet"

\* Faulty variant of Click: the handlers do not test the flags.
Click_NoGuard(confirmed) ==
  /\ UserCanAct /\ form.outstanding < MaxOutstanding
  /\ form' = Attempt(confirmed)
  /\ UNCHANGED <<i18n, wizard, dapps, swap>>

\* A click on the confirm (confirmed) or decline button.
Click(confirmed) ==
  /\ UserCanAct /\ form.outstanding < MaxOutstanding
  /\ form' = IF form.rendered.confirming \/ form.rendered.declining
             THEN [form EXCEPT !.ignored = TRUE]
             ELSE Attempt(confirmed)
  /\ UNCHANGED <<i18n, wizard, dapps, swap>>

\* The flag of the running attempt is set back (line 234 or 242).
FlagBack(f) ==
  [f EXCEPT !.confirming = IF f.attempt THEN FALSE ELSE @,
            !.declining = IF f.attempt THEN @ ELSE FALSE,
            !.pc = "idle"]

\* The client call resolves: confirm returns and the handler resets its flag.
ClientResolves ==
  /\ form.mounted /\ form.pc = "calling"
  /\ form' = FlagBack([form EXCEPT !.outstanding = @ - 1])
  /\ UNCHANGED <<i18n, wizard, dapps, swap>>

\* The client call rejects: the catch block starts the 300 ms delay.
ClientRejects ==
  /\ form.mounted /\ form.pc = "calling"
  /\ form' = [form EXCEPT !.outstanding = @ - 1, !.pc = "delay"]
  /\ UNCHANGED <<i18n, wizard, dapps, swap>>

\* The delay is over: setError(err) (line 223).
DelayElapsed ==
  /\ form.mounted /\ form.pc = "delay"
  /\ form' = [form EXCEPT !.error = TRUE, !.pc = "errorSet"]
  /\ UNCHANGED <<i18n, wizard, dapps, swap>>

\* confirm has returned after the catch block: the handler resets its flag.
FlagReset ==
  /\ form.mounted /\ form.pc = "errorSet"
  /\ form' = FlagBack(form)
  /\ UNCHANGED <<i18n, wizard, dapps, swap>>

\* handleErrorAlertClose: the alert is on screen when the rendered error is set.
CloseAlert ==
  /\ UserCanAct /\ form.rendered.error
  /\ form' = Flushed([form EXCEPT !.error = FALSE])
  /\ UNCHANGED <<i18n, wizard, dapps, swap>>

\* Values the user types into the fee and storage limit fields.
FeeEdits == {0, 3, 9}

StorageLimitEdits == {0, StorageLimitAsked}

\* onTotalFeeChange: the field is on screen when no error alert is.
EditFee(v) ==
  /\ UserCanAct /\ form.payload.type = "confirm_operations" /\ ~form.rendered.error
  /\ form' = Flushed([form EXCEPT !.modifiedTotalFeeValue = v, !.edited = TRUE])
  /\ UNCHANGED <<i18n, wizard, dapps, swap>>

\* onStorageLimitChange: shown for a single operation only (lines 331-340).
EditStorageLimit(v) ==
  /\ UserCanAct /\ form.payload.type = "confirm_operations" /\ ~form.rendered.error
  /\ Len(form.payload.opFees) < 2
  /\ v # form.modifiedStorageLimitValue
  /\ form' = Flushed([form EXCEPT !.modifiedStorageLimitValue = v])
  /\ UNCHANGED <<i18n, wizard, dapps, swap>>

\* React commits a render for state set outside an event handler.
Render ==
  /\ form.mounted /\ form.rendered # Captured(form)
  /\ form' = Flushed(form)
  /\ UNCHANGED <<i18n, wizard, dapps, swap>>

FormNext ==
  \/ \E confirmed \in BOOLEAN : Click(confirmed)
  \/ ClientResolves
  \/ ClientRejects
  \/ DelayElapsed
  \/ FlagReset
  \/ CloseAlert
  \/ \E v \in FeeEdits : EditFee(v)
  \/ \E v \in StorageLimitEdits : EditStorageLimit(v)
  \/ Render

SpecForm == FormInit /\ [][FormNext]_vars

\* --------------------------------------------------- ConfirmDAppForm claims
Busy(f) == f.confirming \/ f.declining

Starts == form'.outstanding > form.outstanding

\* C23: the confirming and declining flags are never both true, at most one
\* client confirmation call is outstanding, and a click made while either
\* flag is set calls no client method.
C23_OneRequestOutstanding ==
  /\ [](~(form.confirming /\ form.declining) /\ form.outstanding <= 1)
  /\ [][Busy(form) => ~Starts]_vars

\* A click on a button was ignored while the confirm request was outstanding.
C23_Witness ==
  form.mounted /\ form.ignored /\ form.confirming /\ form.outstanding = 1

\* C24: an attempt starts with error reset to null; error becomes non-null
\* only in the attempt whose client call has rejected, while its flag is still
\* set, and the flag is reset after a rejection only once error is set; when
\* the call resolves, error is null and the flag is reset.
C24_ErrorFollowsRejection ==
  /\ [][Starts => ~form'.error /\ Busy(form')]_vars
  /\ [][~form.error /\ form'.error
          => form.pc = "delay" /\ form.outstanding = 0 /\ Busy(form')]_vars
  /\ [][form.pc \in {"delay", "errorSet"} /\ ~Busy(form') => form.error /\ form'.error]_vars
  /\ [][form.pc = "calling" /\ form'.pc = "idle" => ~form'.error /\ ~Busy(form')]_vars

\* A decline attempt has failed: error is set while the declining flag is
\* still up and before the alert is rendered.
C24_Witness ==
  form.mounted /\ form.pc = "errorSet" /\ form.error /\ form.declining
    /\ ~form.rendered.error

\* The sum of the fees of the operations, a missing fee counting 0.
RECURSIVE FeesTotal(_, _)
FeesTotal(payload, i) ==
  IF i = 0 THEN 0
  ELSE FeesTotal(payload, i - 1)
         + (IF payload.opFees[i].t = "undefined" THEN 0
            ELSE IF payload.opFees[i].t = "number" THEN payload.opFees[i].n
            ELSE ToNumber(payload.opFees[i].s).n)

\* The reveal fee as stated: the first estimate when there is exactly one
\* estimate more than operations.
StatedRevealFee(payload) ==
  IF payload.hasEstimates /\ Len(payload.estimates) = Len(payload.opFees) + 1
  THEN payload.estimates[1]
  ELSE 0

\* C25: confirmDAppOperation is passed modifiedTotalFeeValue - revealFee;
\* while the fee was never edited that is the sum of the fees of the
\* operations, and it is not negative.
C25_FeePassedWithoutReveal ==
  [][Starts /\ form.payload.type = "confirm_operations"
       => /\ form'.call.method = "confirmDAppOperation"
          /\ form'.call.fee = form.modifiedTotalFeeValue - StatedRevealFee(form.payload)
          /\ ~form.edited
               => /\ form'.call.fee = FeesTotal(form.payload, Len(form.payload.opFees))
                  /\ form'.call.fee >= 0]_vars

\* Two operations with fees 5 and "2" and a reveal were confirmed unedited.
C25_Witness ==
  /\ form.mounted /\ form.call.method = "confirmDAppOperation" /\ ~form.edited
  /\ revealFee(form.payload) = FeeOfReveal
  /\ form.modifiedTotalFeeValue = 11 /\ form.call.fee = 7

\* ================================================== buy-crypto FirstStep
\* Clicks on the top-up button explored.
MaxClicks == 2

Clicks == 1..MaxClicks

\* Results submitExchange resolves with (exchangeData is null at first).
NoExchangeData == 0

ExchangeResults == {1, 2}

NotClicked == [status |-> "none", step |-> 0, data |-> NoExchangeData]

\* FirstStep after its first render: the parent's step, exchangeData and
\* isError, its own disabledProceed, and the step prop of the last render.
MountedWizard ==
  [mounted |-> TRUE, step |-> 0, exchangeData |-> NoExchangeData,
   isError |-> FALSE, disabledProceed |-> FALSE,
   props |-> [step |-> 0],
   clicks |-> [c \in Clicks |-> NotClicked], n |-> 0]

WizardInit ==
  /\ ModuleAtLoad
  /\ wizard = MountedWizard
  /\ form = Unmounted /\ dapps = Unmounted /\ swap = Unmounted

\* Between the two awaits of a handler only microtasks run.
NoHandlerRunning == \A c \in Clicks : wizard.clicks[c].status # "dataSet"

\* A click on the button: submitExchangeHandler is called and suspends at
\* await submitExchange(...), holding the step of the render it belongs to.
SubmitClick ==
  /\ wizard.mounted /\ NoHandlerRunning
  /\ ~wizard.isError /\ ~wizard.disabledProceed
  /\ wizard.n < MaxClicks
  /\ wizard' = [wizard EXCEPT
       !.n = @ + 1,
       !.clicks[wizard.n + 1] =
          [status |-> "pending", step |-> wizard.props.step, data |-> NoExchangeData]]
  /\ UNCHANGED <<i18n, form, dapps, swap>>

\* submitExchange resolves: setExchangeData(data), awaited.
SubmitResolves(c, data) ==
  /\ wizard.mounted /\ NoHandlerRunning
  /\ wizard.clicks[c].status = "pending"
  /\ wizard' = [wizard EXCEPT
       !.exchangeData = data,
       !.clicks[c].status = "dataSet", !.clicks[c].data = data]
  /\ UNCHANGED <<i18n, form, dapps, swap>>

\* Faulty variant of Advance: the step is advanced from its current value.
Advance_FromCurrent(c) ==
  /\ wizard.mounted /\ wizard.clicks[c].status = "dataSet"
  /\ wizard' = [wizard EXCEPT !.step = @ + 1, !.clicks[c].status = "done"]
  /\ UNCHANGED <<i18n, form, dapps, swap>>

\* setStep(step + 1), with the step the handler's closure holds.
Advance(c) ==
  /\ wizard.mounted /\ wizard.clicks[c].status = "dataSet"
  /\ wizard' = [wizard EXCEPT
       !.step = wizard.clicks[c].step + 1, !.clicks[c].status = "done"]
  /\ UNCHANGED <<i18n, form, dapps, swap>>

\* submitExchange rejects: the catch block logs the error.
SubmitRejects(c) ==
  /\ wizard.mounted /\ NoHandlerRunning
  /\ wizard.clicks[c].status = "pending"
  /\ wizard' = [wizard EXCEPT !.clicks[c].status = "failed"]
  /\ UNCHANGED <<i18n, form, dapps, swap>>

\* getRate resolves: the effect on rates sets disabledProceed.
RateResolves(destination_amount) ==
  /\ wizard.mounted /\ NoHandlerRunning
  /\ wizard.disabledProceed # (destination_amount = 0)
  /\ wizard' = [wizard EXCEPT !.disabledProceed = (destination_amount = 0)]
  /\ UNCHANGED <<i18n, form, dapps, swap>>

\* getRate fails: the effect on error sets isError.
RateFails ==
  /\ wizard.mounted /\ NoHandlerRunning
  /\ ~wizard.isError
  /\ wizard' = [wizard EXCEPT !.isError = TRUE]
  /\ UNCHANGED <<i18n, form, dapps, swap>>

\* The parent renders FirstStep again with its new step.
WizardRender ==
  /\ wizard.mounted /\ NoHandlerRunning
  /\ wizard.props.step # wizard.step
  /\ wizard' = [wizard EXCEPT !.props.step = wizard.step]
  /\ UNCHANGED <<i18n, form, dapps, swap>>

WizardNext ==
  \/ SubmitClick
  \/ \E c \in Clicks, data \in ExchangeResults : SubmitResolves(c, data)
  \/ \E c \in Clicks : Advance(c)
  \/ \E c \in Clicks : SubmitRejects(c)
  \/ \E destination_amount \in {0, 1} : RateResolves(destination_amount)
  \/ RateFails
  \/ WizardRender

SpecWizard == WizardInit /\ [][WizardNext]_vars

\* ------------------------------------------------------- FirstStep claims
HandlerStep(c, from, to) ==
  wizard.clicks[c].status = from /\ wizard'.clicks[c].status = to

\* C26: the step changes only in a handler whose submitExchange has resolved
\* and whose result is the exchange data, every such handler sets it to the
\* step it was clicked at plus one, and a handler whose submitExchange
\* rejects leaves step, exchangeData and isError as they are.
C26_StepAdvancesAfterSubmit ==
  /\ [][wizard'.step # wizard.step
          => \E c \in Clicks :
               /\ HandlerStep(c, "dataSet", "done")
               /\ wizard.exchangeData = wizard.clicks[c].data
               /\ wizard.clicks[c].data \in ExchangeResults]_vars
  /\ [][\A c \in Clicks :
          HandlerStep(c, "dataSet", "done")
            => wizard'.step = wizard.clicks[c].step + 1]_vars
  /\ [][\A c \in Clicks :
          HandlerStep(c, "pending", "failed")
            => /\ wizard'.step = wizard.step
               /\ wizard'.exchangeData = wizard.exchangeData
               /\ wizard'.isError = wizard.isError]_vars

\* Two clicks made at step 0: one failed, the other has advanced the wizard.
C26_Witness ==
  /\ wizard.mounted /\ wizard.step = 1 /\ wizard.exchangeData # NoExchangeData
  /\ \E c, d \in Clicks :
       /\ wizard.clicks[c].status = "done" /\ wizard.clicks[c].step = 0
       /\ wizard.clicks[d].status = "failed" /\ wizard.clicks[d].step = 0

\* ================================================================ DAppsList
\* The slugs of the DApps getDApps returned.
allDAppsSlugs == <<"a", "b", "c">>

Slugs == {allDAppsSlugs[i] : i \in 1..Len(allDAppsSlugs)}

\* Length of the favorites list explored.
MaxFavorites == 4

Includes(list, slug) == \E i \in 1..Len(list) : list[i] = slug

\* Array.prototype.indexOf, 0-based, -1 when absent.
IndexOf(list, slug) ==
  IF Includes(list, slug)
  THEN (CHOOSE i \in 1..Len(list) :
          list[i] = slug /\ \A j \in 1..(i - 1) : list[j] # slug) - 1
  ELSE -1

\* Array.prototype.splice(start, 1): a negative start counts from the end.
Splice1(list, start) ==
  LET from == IF start < 0
              THEN (IF Len(list) + start < 0 THEN 0 ELSE Len(list) + start)
              ELSE (IF start > Len(list) THEN Len(list) ELSE start)
  IN  SubSeq(list, 1, from) \o SubSeq(list, from + 2, Len(list))

NoFavoriteCall == [op |-> "none", newIsFavorite |-> FALSE, slug |-> "", before |-> <<>>]

\* DAppsList after its first render: useStorage(FAVORITE_DAPPS_STORAGE_KEY, []).
MountedDApps == [mounted |-> TRUE, favoriteDApps |-> <<>>, last |-> NoFavoriteCall]

DAppsInit ==
  /\ ModuleAtLoad
  /\ dapps = MountedDApps
  /\ form = Unmounted /\ wizard = Unmounted /\ swap = Unmounted

allDAppsAreFavorite ==
  \A i \in 1..Len(allDAppsSlugs) : Includes(dapps.favoriteDApps, allDAppsSlugs[i])

\* toggleAllFavorite (lines 83-94)
toggleAllFavorite ==
  /\ dapps.mounted
  /\ dapps' = [dapps EXCEPT
       !.favoriteDApps = IF allDAppsAreFavorite THEN <<>> ELSE allDAppsSlugs,
       !.last = [op |-> "toggleAll", newIsFavorite |-> FALSE, slug |-> "",
                 before |-> dapps.favoriteDApps]]
  /\ UNCHANGED <<i18n, form, wizard, swap>>

\* handleFavoriteChange (lines 96-107)
handleFavoriteChange(newIsFavorite, slug) ==
  /\ dapps.mounted
  /\ newIsFavorite => Len(dapps.favoriteDApps) < MaxFavorites
  /\ LET newFavorites == dapps.favoriteDApps
     IN  dapps' = [dapps EXCEPT
           !.favoriteDApps =
              IF newIsFavorite
              THEN Append(newFavorites, slug)
              ELSE Splice1(newFavorites, IndexOf(newFavorites, slug)),
           !.last = [op |-> "change", newIsFavorite |-> newIsFavorite, slug |-> slug,
                     before |-> dapps.favoriteDApps]]
  /\ UNCHANGED <<i18n, form, wizard, swap>>

DAppsNext ==
  \/ toggleAllFavorite
  \/ \E newIsFavorite \in BOOLEAN, slug \in Slugs : handleFavoriteChange(newIsFavorite, slug)

SpecDApps == DAppsInit /\ [][DAppsNext]_vars

\* -------------------------------------------------------- DAppsList claims
NoSlugTwice(list) ==
  \A i, j \in 1..Len(list) : list[i] = list[j] => i = j

\* C27: the favorites list holds no slug twice; after
\* handleFavoriteChange(true, s) the slug s is a favorite; after
\* handleFavoriteChange(false, s) it is not, and every other slug is a
\* favorite exactly when it was one before the call.
C27_FavoritesAreASet ==
  dapps.mounted =>
    /\ NoSlugTwice(dapps.favoriteDApps)
    /\ dapps.last.op = "change" /\ dapps.last.newIsFavorite
         => Includes(dapps.favoriteDApps, dapps.last.slug)
    /\ dapps.last.op = "change" /\ ~dapps.last.newIsFavorite
         => /\ ~Includes(dapps.favoriteDApps, dapps.last.slug)
            /\ \A other \in Slugs \ {dapps.last.slug} :
                 Includes(dapps.favoriteDApps, other) <=> Includes(dapps.last.before, other)

\* ================================================================ SwapInput
\* Amounts are BigNumbers with Scale decimals, held as integers; a value can
\* also be Infinity or undefined.  Prices are numbers with one decimal.
Scale == 2

BN(n) == [k |-> "num", n |-> n]

Infinity == [k |-> "inf", n |-> 0]

NoNumber == [k |-> "undefined", n |-> 0]

RECURSIVE Pow10(_)
Pow10(d) == IF d = 0 THEN 1 ELSE 10 * Pow10(d - 1)

\* Integer division rounding towards zero (BigNumber.ROUND_DOWN).
TruncDiv(a, b) == IF a >= 0 THEN a \div b ELSE -((-a) \div b)

\* x.decimalPlaces(decimals, BigNumber.ROUND_DOWN)
DecimalPlaces(x, decimals) ==
  IF x.k = "num"
  THEN BN(TruncDiv(x.n, Pow10(Scale - decimals)) * Pow10(Scale - decimals))
  ELSE x

\* x.multipliedBy(percentage).div(100).decimalPlaces(decimals, ROUND_DOWN)
PercentageOf(x, percentage, decimals) ==
  IF x.k = "num"
  THEN BN(TruncDiv(x.n * percentage, 100 * Pow10(Scale - decimals))
            * Pow10(Scale - decimals))
  ELSE x

\* BigNumber.min of two defined values.
BigNumberMin(a, b) ==
  IF a.k = "inf" THEN b
  ELSE IF b.k = "inf" THEN a
  ELSE IF a.n <= b.n THEN a ELSE b

\* x ?? new BigNumber(Infinity)
OrInfinity(x) == IF x.k = "undefined" THEN Infinity ELSE x

\* EXCHANGE_XTZ_RESERVE of lib/temple/front: 0.3 TEZ.
EXCHANGE_XTZ_RESERVE == 30

\* balance?.minus(EXCHANGE_XTZ_RESERVE)
MinusReserve(balance) ==
  IF balance.k = "num" THEN BN(balance.n - EXCHANGE_XTZ_RESERVE) ELSE balance

\* assetAmountToUSD of lib/temple/front: undefined without an amount or a
\* price, else the product rounded down to two decimals.
assetAmountToUSD(amount, assetUsdPrice) ==
  IF amount.k = "undefined" \/ assetUsdPrice.k = "undefined" THEN NoNumber
  ELSE IF amount.k = "inf" THEN amount
  ELSE BN(TruncDiv(amount.n * assetUsdPrice.n, 10 * Pow10(Scale - 2))
            * Pow10(Scale - 2))

\* The assets of the menu.
NoAsset == [type |-> "none", decimals |-> 0]

TEZ_ASSET == [type |-> "TEZ", decimals |-> 2]

TokenAsset == [type |-> "FA2", decimals |-> 0]

Assets == {TEZ_ASSET, TokenAsset}

NoExchangeDataOf == [usdPrice |-> NoNumber, maxExchangable |-> NoNumber]

\* What getAssetExchangeData returns for each asset, as the market moves.
MarketChoices ==
  { [a \in Assets |->
       IF a = TEZ_ASSET THEN [usdPrice |-> BN(25), maxExchangable |-> NoNumber]
       ELSE [usdPrice |-> BN(7), maxExchangable |-> BN(400)]],
    [a \in Assets |->
       IF a = TEZ_ASSET THEN [usdPrice |-> BN(25), maxExchangable |-> BN(100)]
       ELSE NoExchangeDataOf],
    [a \in Assets |-> NoExchangeDataOf] }

BalanceChoices == {NoNumber, BN(10), BN(255)}

AmountChoices == {NoNumber, BN(125)}

BUTTONS_PERCENTAGES == {25, 50, 75, 100}

NoValue == [asset |-> NoAsset, amount |-> NoNumber, usdAmount |-> NoNumber]

NotEmitted == [emitted |-> FALSE, value |-> NoValue]

Emitted(value) == [emitted |-> TRUE, value |-> value]

NoEvent == [event |-> "none", percentage |-> 0, before |-> NoValue]

\* assetExchangeData (lines 107-117) and assetUsdPrice (line 135)
assetExchangeData(s) ==
  IF s.value.asset = NoAsset THEN NoExchangeDataOf ELSE s.market[s.value.asset]

assetUsdPrice(s) == assetExchangeData(s).usdPrice

\* !!assetUsdPrice
HasUsdPrice(s) == assetUsdPrice(s).k = "num" /\ assetUsdPrice(s).n # 0

\* actualShouldShowUsd (line 136)
actualShouldShowUsd(s) == s.shouldShowUsd /\ HasUsdPrice(s)

\* maxAmount (lines 119-134)
maxAmount(s) ==
  IF s.value.asset = NoAsset THEN BN(0)
  ELSE IF s.amountReadOnly THEN Infinity
  ELSE LET exchangableAmount ==
             IF s.value.asset.type = "TEZ" THEN MinusReserve(s.balance) ELSE s.balance
       IN  BigNumberMin(OrInfinity(assetExchangeData(s).maxExchangable),
                        OrInfinity(exchangableAmount))

\* The render after a change: the effect of lines 138-142 is scheduled when
\* its condition holds.
Committed(s) ==
  [s EXCEPT !.effectPending = s.shouldShowUsd /\ ~actualShouldShowUsd(s)]

\* SwapInput after its first render; the parent holds value and hands
\* every emitted value back as the value prop.
MountedSwap(amountReadOnly, market) ==
  [mounted |-> TRUE, amountReadOnly |-> amountReadOnly,
   value |-> NoValue, shouldShowUsd |-> FALSE, effectPending |-> FALSE,
   balance |-> NoNumber, market |-> market,
   out |-> NotEmitted, last |-> NoEvent, reset |-> FALSE]

SwapInit ==
  /\ ModuleAtLoad
  /\ \E amountReadOnly \in BOOLEAN, market \in MarketChoices :
       swap = MountedSwap(amountReadOnly, market)
  /\ form = Unmounted /\ wizard = Unmounted /\ dapps = Unmounted

\* A pending effect runs before the next event or render is processed.
Idle == swap.mounted /\ ~swap.effectPending

\* onChange?.(newValue), the parent storing it.
OnChange(s, newValue) ==
  [s EXCEPT !.value = newValue, !.out = Emitted(newValue)]

\* handlePercentageClick (lines 189-206); the buttons are enabled with a
\* balance and belong to the input whose amount is editable.
handlePercentageClick(percentage) ==
  /\ Idle /\ ~swap.amountReadOnly /\ swap.balance.k # "undefined"
  /\ LET asset == swap.value.asset
         newAmount == PercentageOf(maxAmount(swap), percentage, asset.decimals)
         newUsdAmount == assetAmountToUSD(newAmount, assetUsdPrice(swap))
         event == [event |-> "percentage", percentage |-> percentage,
                   before |-> swap.value]
     IN  swap' =
           IF asset = NoAsset
           THEN [swap EXCEPT !.out = NotEmitted, !.last = event]
           ELSE Committed(
                  [OnChange(swap, [asset |-> asset, amount |-> newAmount,
                                   usdAmount |-> newUsdAmount])
                     EXCEPT !.last = event])
  /\ UNCHANGED <<i18n, form, wizard, dapps>>

\* handleSelectedAssetChange (lines 208-228); useBalance then reports the
\* balance of the new asset, or none while it loads.
handleSelectedAssetChange(newValue, balance) ==
  /\ Idle /\ newValue # swap.value.asset
  /\ LET newAmount == DecimalPlaces(swap.value.amount, newValue.decimals)
         newUsdAmount == assetAmountToUSD(newAmount, assetUsdPrice(swap))
     IN  swap' = Committed(
           [OnChange(swap, [asset |-> newValue, amount |-> newAmount,
                            usdAmount |-> newUsdAmount])
              EXCEPT !.balance = balance,
                     !.last = [event |-> "select", percentage |-> 0,
                               before |-> swap.value]])
  /\ UNCHANGED <<i18n, form, wizard, dapps>>

\* handleAmountChange of the header (lines 449-467) for an amount typed in
\* asset units, passed on by handleAmountChange (lines 178-187).
handleAmountChange(amount) ==
  /\ Idle /\ ~swap.amountReadOnly /\ ~actualShouldShowUsd(swap)
  /\ amount # swap.value.amount
  /\ swap' = Committed(
       [OnChange(swap, [asset |-> swap.value.asset, amount |-> amount,
                        usdAmount |-> assetAmountToUSD(amount, assetUsdPrice(swap))])
          EXCEPT !.last = [event |-> "amount", percentage |-> 0,
                           before |-> swap.value]])
  /\ UNCHANGED <<i18n, form, wizard, dapps>>

\* handleInUSDToggle (lines 230-232); the button is rendered when
\* canSwitchToUSD (line 581).
handleInUSDToggle ==
  /\ Idle /\ HasUsdPrice(swap)
  /\ swap' = Committed(
       [swap EXCEPT !.shouldShowUsd = ~@, !.out = NotEmitted, !.reset = FALSE,
                    !.last = [event |-> "toggle", percentage |-> 0,
                              before |-> swap.value]])
  /\ UNCHANGED <<i18n, form, wizard, dapps>>

\* Faulty variant of ResetEffect: the effect does not reset the toggle.
ResetEffect_KeepsToggle ==
  /\ swap.mounted /\ swap.effectPending
  /\ swap' = [swap EXCEPT !.effectPending = FALSE, !.out = NotEmitted,
                          !.last = [event |-> "effect", percentage |-> 0,
                                    before |-> swap.value]]
  /\ UNCHANGED <<i18n, form, wizard, dapps>>

\* The effect of lines 138-142: setShouldShowUsd(false).
ResetEffect ==
  /\ swap.mounted /\ swap.effectPending
  /\ swap' = [swap EXCEPT !.shouldShowUsd = FALSE, !.effectPending = FALSE,
                          !.reset = TRUE, !.out = NotEmitted,
                          !.last = [event |-> "effect", percentage |-> 0,
                                    before |-> swap.value]]
  /\ UNCHANGED <<i18n, form, wizard, dapps>>

\* useSwappableAssets delivers new exchange data.
MarketUpdate(market) ==
  /\ Idle /\ market # swap.market
  /\ swap' = Committed(
       [swap EXCEPT !.market = market, !.out = NotEmitted,
                    !.last = [event |-> "market", percentage |-> 0,
                              before |-> swap.value]])
  /\ UNCHANGED <<i18n, form, wizard, dapps>>

\* useBalance delivers the balance (updateBalance on every block).
BalanceUpdate(balance) ==
  /\ Idle /\ balance # swap.balance /\ balance.k # "undefined"
  /\ swap' = [swap EXCEPT !.balance = balance, !.out = NotEmitted,
                          !.last = [event |-> "balance", percentage |-> 0,
                                    before |-> swap.value]]
  /\ UNCHANGED <<i18n, form, wizard, dapps>>

SwapNext ==
  \/ \E percentage \in BUTTONS_PERCENTAGES : handlePercentageClick(percentage)
  \/ \E newValue \in Assets, balance \in BalanceChoices :
       handleSelectedAssetChange(newValue, balance)
  \/ \E amount \in AmountChoices : handleAmountChange(amount)
  \/ handleInUSDToggle
  \/ ResetEffect
  \/ \E market \in MarketChoices : MarketUpdate(market)
  \/ \E balance \in BalanceChoices : BalanceUpdate(balance)

\* React runs a scheduled effect.
SpecSwap == SwapInit /\ [][SwapNext]_vars /\ WF_vars(ResetEffect)

\* -------------------------------------------------------- SwapInput claims
\* The maximum as stated: the smaller of maxExchangable and the balance, less
\* the reserve for TEZ.
StatedMaxAmount ==
  LET available == IF swap.value.asset.type = "TEZ"
                   THEN swap.balance.n - EXCHANGE_XTZ_RESERVE
                   ELSE swap.balance.n
      limit == assetExchangeData(swap).maxExchangable
  IN  IF limit.k = "num" /\ limit.n < available THEN limit.n ELSE available

\* C28: a click on a percentage button with an asset selected emits the
\* percentage of the maximum amount, rounded down to the decimals of the
\* asset, which is not negative and not above the balance; without an asset
\* nothing is emitted.
C28_PercentageOfMaxAmount ==
  swap.mounted /\ swap.last.event = "percentage" =>
    IF swap.last.before.asset = NoAsset
    THEN ~swap.out.emitted
    ELSE /\ swap.out.emitted
         /\ swap.out.value.amount =
              PercentageOf(BN(StatedMaxAmount), swap.last.percentage,
                           swap.value.asset.decimals)
         /\ swap.out.value.amount.n >= 0
         /\ swap.out.value.amount.n <= swap.balance.n

\* C29: the value emitted when another asset is selected holds the amount
\* rounded down to the decimals of the new asset and, as usdAmount, that
\* amount at the USD price of the new asset.
C29_UsdAmountAtPriceOfNewAsset ==
  swap.mounted /\ swap.last.event = "select" =>
    /\ swap.out.emitted
    /\ swap.out.value.amount =
         DecimalPlaces(swap.last.before.amount, swap.out.value.asset.decimals)
    /\ swap.out.value.usdAmount =
         assetAmountToUSD(swap.out.value.amount,
                          swap.market[swap.out.value.asset].usdPrice)

\* C30: USD mode is shown only while the selected asset has a USD price; a
\* toggle left on without a price is eventually reset to off; USD mode is
\* entered only by a click on the toggle.
C30_UsdModeNeedsPriceAndClick ==
  /\ [](swap.mounted /\ actualShouldShowUsd(swap) => HasUsdPrice(swap))
  /\ (swap.mounted /\ swap.shouldShowUsd /\ ~HasUsdPrice(swap))
       ~> (~swap.shouldShowUsd)
  /\ [][~actualShouldShowUsd(swap) /\ actualShouldShowUsd(swap')
          => swap'.last.event = "toggle"]_vars

\* The toggle was reset when the price was lost; the price is back and USD
\* mode is off.
C30_Witness ==
  /\ swap.mounted /\ swap.reset /\ swap.last.event = "market"
  /\ HasUsdPrice(swap) /\ ~swap.shouldShowUsd

====
